---- MODULE Spec2Model ----
(***************************************************************************)
(* State-machine model of ShotAnalyzer (src/app.py): the phase classifier  *)
(* detect_shooting_phase with its two sticky flags, the phase-scoped flaw  *)
(* catalog analyze_phase_specific_flaws, the Timing-Window Oracle          *)
(* get_optimal_flaw_timing, the four-tier Capture Selector                 *)
(* capture_phase_specific_stills, process_frame and the two resets.        *)
(*                                                                         *)
(* A video frame is represented by the features the code derives from its  *)
(* keypoints (angles in degrees, normalised coordinates in thousandths,    *)
(* deltas in hundredths as the code scales them).  Severities are integer  *)
(* percentages; the feature values of the model are chosen so that every   *)
(* severity formula of the catalog is exact on them.                       *)
(***************************************************************************)
EXTENDS Integers, Sequences, FiniteSets, TLC

\* ---------------------------------------------------------------- bounds
MaxFrames == 3

\* --------------------------------------------------------------- helpers
\* An attribute the code creates lazily (hasattr / setattr): <<>> while the
\* attribute does not exist, <<v>> once it holds v.
NoAttr == << >>
HasAttr(a) == Len(a) = 1
Attr(a) == a[1]

\* A minimum that always answers its first argument.
Min_unclamped(a, b) == a

Min(a, b) == IF a < b THEN a ELSE b
Max(a, b) == IF a > b THEN a ELSE b
Abs(a) == IF a < 0 THEN -a ELSE a

Phases == {"preparation", "shooting", "release", "follow_through"}

VARIABLES
    frame_count,               \* self.frame_count
    shot_sequence,             \* self.shot_sequence: <<[frame, phase]>>
    phase_history,             \* self.phase_history
    best_flaw_frames,          \* self.best_flaw_frames: flaw_key -> record
    phase_transition_frames,   \* self.phase_transition_frames: phase -> frame
    captured_flaws,            \* self.captured_flaws
    release_detected,          \* self.release_detected
    shooting_started,          \* self.shooting_started
    previous_wrist_height,     \* lazily created attributes ...
    previous_arm_extension,
    previous_follow_through_wrist_angle,
    release_hip_height,
    previous_wrist_position,
    thumb_flick_flaw_tracker,
    motion_history,
    phase_frame_counts,
    tempo_markers,             \* self.tempo_markers: phase -> number of frame markers
    guide_hand_history,
    guide_hand_velocity_history,
    immediate_thumb_capture_frame,
    op,                        \* observation: the last operation called
    emitted,                   \* observation: labels emitted by the classifier in the last operation
    raised,                    \* observation: the last operation let an exception escape
    last_flaws,                \* observation: flaws returned by the last flaw analysis
    max_severity,              \* observation: flaw name -> highest severity reported this sequence
    oracle_true,               \* observation: flaw names the oracle answered true for this sequence
    processed,                 \* observation: frames handed to process_frame since construction
    call,                      \* a helper method called on its own: [fn, args, result]
    sessions                   \* a second ShotAnalyzer instance, and the frames fed to each instance

\* The analyzer and the observations of its operations.
analyzer_vars == << frame_count, shot_sequence, phase_history, best_flaw_frames,
           phase_transition_frames, captured_flaws, release_detected,
           shooting_started, previous_wrist_height, previous_arm_extension,
           previous_follow_through_wrist_angle, release_hip_height,
           previous_wrist_position, thumb_flick_flaw_tracker, motion_history,
           phase_frame_counts, tempo_markers, guide_hand_history,
           guide_hand_velocity_history,
           immediate_thumb_capture_frame, op, emitted, raised, last_flaws,
           max_severity, oracle_true, processed >>

vars == << analyzer_vars, call, sessions >>

\* The analyzer object as one record, for the operators that model methods.
Self ==
    [ frame_count |-> frame_count,
      shot_sequence |-> shot_sequence,
      phase_history |-> phase_history,
      best_flaw_frames |-> best_flaw_frames,
      phase_transition_frames |-> phase_transition_frames,
      captured_flaws |-> captured_flaws,
      release_detected |-> release_detected,
      shooting_started |-> shooting_started,
      previous_wrist_height |-> previous_wrist_height,
      previous_arm_extension |-> previous_arm_extension,
      previous_follow_through_wrist_angle |-> previous_follow_through_wrist_angle,
      release_hip_height |-> release_hip_height,
      previous_wrist_position |-> previous_wrist_position,
      thumb_flick_flaw_tracker |-> thumb_flick_flaw_tracker,
      motion_history |-> motion_history,
      phase_frame_counts |-> phase_frame_counts,
      tempo_markers |-> tempo_markers,
      guide_hand_history |-> guide_hand_history,
      guide_hand_velocity_history |-> guide_hand_velocity_history,
      immediate_thumb_capture_frame |-> immediate_thumb_capture_frame,
      emitted |-> << >>,
      raised |-> FALSE,
      oracle_true |-> oracle_true ]

\* The analyzer right after ShotAnalyzer() (lines 382-398): the lazily
\* created attributes do not exist yet.
FreshSelf ==
    [ frame_count |-> 0,
      shot_sequence |-> << >>,
      phase_history |-> << >>,
      best_flaw_frames |-> << >>,
      phase_transition_frames |-> << >>,
      captured_flaws |-> {},
      release_detected |-> FALSE,
      shooting_started |-> FALSE,
      previous_wrist_height |-> NoAttr,
      previous_arm_extension |-> NoAttr,
      previous_follow_through_wrist_angle |-> NoAttr,
      release_hip_height |-> NoAttr,
      previous_wrist_position |-> NoAttr,
      thumb_flick_flaw_tracker |-> NoAttr,
      motion_history |-> NoAttr,
      phase_frame_counts |-> NoAttr,
      tempo_markers |-> NoAttr,
      guide_hand_history |-> NoAttr,
      guide_hand_velocity_history |-> NoAttr,
      immediate_thumb_capture_frame |-> NoAttr,
      emitted |-> << >>,
      raised |-> FALSE,
      oracle_true |-> {} ]

Commit(s) ==
    /\ frame_count' = s.frame_count
    /\ shot_sequence' = s.shot_sequence
    /\ phase_history' = s.phase_history
    /\ best_flaw_frames' = s.best_flaw_frames
    /\ phase_transition_frames' = s.phase_transition_frames
    /\ captured_flaws' = s.captured_flaws
    /\ release_detected' = s.release_detected
    /\ shooting_started' = s.shooting_started
    /\ previous_wrist_height' = s.previous_wrist_height
    /\ previous_arm_extension' = s.previous_arm_extension
    /\ previous_follow_through_wrist_angle' = s.previous_follow_through_wrist_angle
    /\ release_hip_height' = s.release_hip_height
    /\ previous_wrist_position' = s.previous_wrist_position
    /\ thumb_flick_flaw_tracker' = s.thumb_flick_flaw_tracker
    /\ motion_history' = s.motion_history
    /\ phase_frame_counts' = s.phase_frame_counts
    /\ tempo_markers' = s.tempo_markers
    /\ guide_hand_history' = s.guide_hand_history
    /\ guide_hand_velocity_history' = s.guide_hand_velocity_history
    /\ immediate_thumb_capture_frame' = s.immediate_thumb_capture_frame
    /\ emitted' = s.emitted
    /\ raised' = s.raised
    /\ oracle_true' = s.oracle_true


\* --------------------------------------------------------- video frames
\* What the pose estimator delivers for one frame:
\*   pose = "none"     no pose detected (results.pose_landmarks is None)
\*   pose = "no_arm"   a keypoint list that lacks a keypoint the classifier reads
\*   pose = "full"     all keypoints
\* and the features the code computes from the keypoints:
\*   ext   calculate_angle(right_shoulder, right_elbow, right_wrist), degrees
\*   wsd   (right_shoulder.y - right_wrist.y) * 100
\*   shd   abs(right_shoulder.y - right_hip.y) * 100
\*   bd    abs(shoulder_center_x - hip_center_x) * 1000
\*   sw    abs(left_hip.x - right_hip.x) * 1000
\*   knee  average knee angle, degrees
\*   tilt  (left_shoulder.y - right_shoulder.y) * 1000
\*   ha    abs(right_wrist.x - nose.x) * 1000
\*   pd    abs(right_shoulder.x - right_wrist.x) * 1000
\*   she   abs(right_shoulder.y - right_elbow.y) * 1000
\*   kha   abs(knee_center_x - hip_center_x) * 1000
\*   hip   (left_hip.y + right_hip.y) / 2 * 1000
\*   snap2 twice the wrist snap angle of analyze_wrist_snap (half degrees)
\*   wspeed wrist displacement since the previous frame * 30, in tenths
\* The trackers keep rolling windows of raw positions; the model keeps the
\* windows' lengths and takes what a window of the guide hand's and the
\* arm's recent positions yields as features of the frame:
\*   move  "still": the guide hand did not move over the window,
\*         "moving": it moved steadily (velocity above every threshold)
\*   ghp   placement_score of analyze_guide_hand_mechanics * 100
\*   rhythm "smooth": smoothness_score stays at its 0.9 baseline,
\*         "jerky": a window of 4 or more motion vectors yields 0.5
CleanFrame ==
    [ pose |-> "full", ext |-> 90, wsd |-> 5, shd |-> 20, bd |-> 10,
      sw |-> 150, knee |-> 155, tilt |-> 0, ha |-> 0, pd |-> 0, she |-> 10,
      kha |-> 0, hip |-> 500, snap2 |-> 140, wspeed |-> 30, move |-> "still",
      ghp |-> 100, rhythm |-> "smooth" ]

NoPoseFrame == [CleanFrame EXCEPT !.pose = "none"]
NoArmFrame == [CleanFrame EXCEPT !.pose = "no_arm"]

\* ---------------------------------------------------- phase classifier
\* detect_shooting_phase on analyzer s and frame kp.  It returns the label
\* and the analyzer after the call.  Every call that gets past the keypoint
\* lookups stores wrist_shoulder_delta in previous_wrist_height (finally
\* clause, line 3624).  When a lookup fails the except clause returns
\* "unknown", but the finally clause then reads the local
\* wrist_shoulder_delta, which was never assigned: the UnboundLocalError
\* replaces the return value and leaves the method.

\* A classifier without an early-frame budget.
within_early_frames_always(frame_index) == TRUE

\* "Only first 8 frames can be preparation" (line 3599)
within_early_frames(frame_index) == frame_index <= 8

\* A release that asks for an arm ten degrees straighter.
release_criteria_above_175(arm_extension, wrist_shoulder_delta) ==
    arm_extension >= 175 /\ wrist_shoulder_delta >= 25

\* PHASE 3: RELEASE, high arm extension and high wrist position (line 3575)
release_criteria(arm_extension, wrist_shoulder_delta) ==
    arm_extension >= 165 /\ wrist_shoulder_delta >= 25

\* Variant of Emit in which release_detected is recomputed from the label of
\* the current frame instead of being kept once set.
Emit_recomputing_flags(s, label, started, released, kp) ==
    [ phase |-> label,
      self |-> [s EXCEPT !.shooting_started = started,
                         !.release_detected = (label = "release"),
                         !.previous_wrist_height = << kp.wsd >>,
                         !.emitted = Append(@, [ label |-> label,
                                                 frame |-> s.frame_count,
                                                 started_before |-> s.shooting_started,
                                                 released_before |-> s.release_detected ])] ]

Emit(s, label, started, released, kp) ==
    [ phase |-> label,
      self |-> [s EXCEPT !.shooting_started = started,
                         !.release_detected = released,
                         !.previous_wrist_height = << kp.wsd >>,
                         !.emitted = Append(@, [ label |-> label,
                                                 frame |-> s.frame_count,
                                                 started_before |-> s.shooting_started,
                                                 released_before |-> s.release_detected ])] ]

\* Variant of the classifier that sets the sticky flags but decides the
\* label from the current keypoints alone.
detect_shooting_phase_ignoring_flags(s, kp) ==
    IF kp.pose = "none"
    THEN [ phase |-> "unknown", self |-> s ]
    ELSE IF kp.pose = "no_arm"
    THEN [ phase |-> "unknown", self |-> [s EXCEPT !.raised = TRUE] ]
    ELSE
    LET wrist_shoulder_delta == kp.wsd
        arm_extension == kp.ext
        shoulder_height_delta == kp.shd
    IN  IF release_criteria(arm_extension, wrist_shoulder_delta)
        THEN Emit(s, "release", TRUE, TRUE, kp)
        ELSE IF \/ wrist_shoulder_delta >= 10
                \/ arm_extension >= 135
                \/ shoulder_height_delta >= 25
        THEN Emit(s, "shooting", TRUE, s.release_detected, kp)
        ELSE IF s.frame_count <= 8
        THEN Emit(s, "preparation", s.shooting_started, s.release_detected, kp)
        ELSE Emit(s, "shooting", TRUE, s.release_detected, kp)

detect_shooting_phase(s, kp) ==
    IF kp.pose = "none"
    THEN [ phase |-> "unknown", self |-> s ]
    ELSE IF kp.pose = "no_arm"
    THEN [ phase |-> "unknown", self |-> [s EXCEPT !.raised = TRUE] ]
    ELSE
    LET elbow_angle == kp.ext
        wrist_shoulder_delta == kp.wsd
        arm_extension == kp.ext
        shoulder_height_delta == kp.shd
    IN  IF s.release_detected
        THEN IF wrist_shoulder_delta >= 15 /\ arm_extension >= 160
             THEN Emit(s, "release", s.shooting_started, s.release_detected, kp)
             ELSE Emit(s, "follow_through", s.shooting_started, s.release_detected, kp)
        ELSE IF /\ s.shooting_started
                /\ arm_extension >= 150
                /\ wrist_shoulder_delta >= 10
                /\ HasAttr(s.previous_wrist_height)
                /\ wrist_shoulder_delta < Attr(s.previous_wrist_height)
        THEN Emit(s, "follow_through", s.shooting_started, s.release_detected, kp)
        ELSE IF release_criteria(arm_extension, wrist_shoulder_delta)
        THEN Emit(s, "release", TRUE, TRUE, kp)
        ELSE IF \/ wrist_shoulder_delta >= 10
                \/ arm_extension >= 135
                \/ shoulder_height_delta >= 25
        THEN Emit(s, "shooting", TRUE, s.release_detected, kp)
        ELSE IF s.shooting_started
        THEN Emit(s, "shooting", s.shooting_started, s.release_detected, kp)
        ELSE IF /\ within_early_frames(s.frame_count)
                /\ ~s.shooting_started
                /\ wrist_shoulder_delta < 10
                /\ arm_extension < 135
                /\ shoulder_height_delta < 25
        THEN Emit(s, "preparation", s.shooting_started, s.release_detected, kp)
        ELSE Emit(s, "shooting", TRUE, s.release_detected, kp)


\* ------------------------------------------------------------ flaw names
\* A flaw name is the sequence of its words: 'shooting_elbow' is
\* <<"shooting", "elbow">>.  The code tests names by substring
\* ('elbow' in flaw_name) and builds the flaw key f"{phase}_{flaw_name}".
Words(label) ==
    IF label = "follow_through" THEN << "follow", "through" >> ELSE << label >>

HasWord(name, w) == \E i \in DOMAIN name : name[i] = w
HasWords(name, w1, w2) ==
    \E i \in DOMAIN name : i + 1 \in DOMAIN name /\ name[i] = w1 /\ name[i + 1] = w2

FlawKey(phase, flaw_name) == Words(phase) \o flaw_name

\* flaw_key.startswith(f"{phase}_")
KeyStartsWith(key, phase) ==
    /\ Len(key) > Len(Words(phase))
    /\ SubSeq(key, 1, Len(Words(phase))) = Words(phase)

preparation_balance == << "preparation", "balance" >>
preparation_stance == << "preparation", "stance" >>
preparation_knee_bend == << "preparation", "knee", "bend" >>
preparation_shoulder_alignment == << "preparation", "shoulder", "alignment" >>
shooting_elbow == << "shooting", "elbow" >>
shooting_alignment == << "shooting", "alignment" >>
shooting_power_generation == << "shooting", "power", "generation" >>
shooting_plane_deviation == << "shooting", "plane", "deviation" >>
guide_hand_interference == << "guide", "hand", "interference" >>
release_height == << "release", "height" >>
release_follow_through == << "release", "follow", "through" >>
release_extension == << "release", "extension" >>
wrist_snap_mechanics == << "wrist", "snap", "mechanics" >>
thumb_flick_technique == << "thumb", "flick", "technique" >>
follow_through_balance == << "follow", "through", "balance" >>
wrist_snap_timing == << "wrist", "snap", "timing" >>
follow_through_angle == << "follow", "through", "angle" >>
landing_balance == << "landing", "balance" >>
shot_smoothness_tempo == << "shot", "smoothness", "tempo" >>

FlawNames ==
    { preparation_balance, preparation_stance, preparation_knee_bend,
      preparation_shoulder_alignment, shooting_elbow, shooting_alignment,
      shooting_power_generation, shooting_plane_deviation,
      guide_hand_interference, release_height, release_follow_through,
      release_extension, wrist_snap_mechanics, thumb_flick_technique,
      follow_through_balance, wrist_snap_timing, follow_through_angle,
      landing_balance, shot_smoothness_tempo }

Flaw(name, priority, severity, phase) ==
    [ name |-> name, priority |-> priority, severity |-> severity, phase |-> phase ]

\* flaws[name] = ... : a new key is appended, an existing key keeps its place.
HasFlaw(flaws, name) == \E i \in DOMAIN flaws : flaws[i].name = name
PutFlaw(flaws, f) ==
    IF HasFlaw(flaws, f.name)
    THEN [ i \in DOMAIN flaws |-> IF flaws[i].name = f.name THEN f ELSE flaws[i] ]
    ELSE Append(flaws, f)
PutIf(cond, flaws, f) == IF cond THEN PutFlaw(flaws, f) ELSE flaws
\* if name not in flaws: flaws[name] = ...
PutNew(cond, flaws, f) == IF cond /\ ~HasFlaw(flaws, f.name) THEN Append(flaws, f) ELSE flaws

\* calculate_angle(right_elbow, right_wrist, {"x": ..., "y": ...}): the third
\* argument is a dict, p3.x raises AttributeError and the bare except of
\* calculate_angle returns 0.0.
calculate_angle_with_dict == 0


\* ------------------------------------------------------ temporal trackers
\* A rolling window is modelled by its length: append, then pop(0) when the
\* length exceeds the window size.
Roll(window, size) ==
    LET n == IF HasAttr(window) THEN Attr(window) ELSE 0
    IN  << Min(n + 1, size) >>

\* analyze_wrist_snap: (snap_angle in half degrees, snap_speed in tenths)
analyze_wrist_snap(s, kp) ==
    [ snap_angle2 |-> kp.snap2,
      snap_speed |-> IF HasAttr(s.previous_wrist_position) THEN kp.wspeed ELSE 30,
      self |-> [s EXCEPT !.previous_wrist_position = << 0 >>] ]

\* self.current_phase is read by analyze_thumb_flick with
\* getattr(self, 'current_phase', 'preparation') and assigned nowhere.
current_phase_attr == "preparation"

NewThumbTracker ==
    [ guide_hand_positions |-> 0, guide_hand_angles |-> 0,
      post_release_activity |-> 0, thumb_rotation_detected |-> FALSE,
      capture_frame_ready |-> FALSE, frames_since_release |-> 0 ]

\* analyze_thumb_flick: (thumb_flick_flaw_score * 100, guide_hand_interference * 100)
analyze_thumb_flick(s, kp) ==
    LET t0 == IF HasAttr(s.thumb_flick_flaw_tracker)
              THEN Attr(s.thumb_flick_flaw_tracker) ELSE NewThumbTracker
        current_phase == current_phase_attr
        in_window == current_phase \in {"release", "follow_through"}
        npos == Min(t0.guide_hand_positions + 1, 8)
        nang == Min(t0.guide_hand_angles + 1, 8)
        \* inward rotation or lateral displacement beyond the thresholds
        signal == in_window /\ npos >= 2 /\ kp.move = "moving"
        t1 == [ t0 EXCEPT
                  !.guide_hand_positions = npos,
                  !.guide_hand_angles = nang,
                  !.frames_since_release = IF in_window THEN @ + 1 ELSE 0,
                  !.thumb_rotation_detected = IF in_window THEN (@ \/ signal) ELSE FALSE,
                  !.capture_frame_ready = IF in_window THEN (@ \/ signal) ELSE FALSE,
                  !.post_release_activity = IF in_window /\ npos >= 3 THEN @ + 1 ELSE @ ]
        thumb_rotation_severity == IF signal THEN 100 ELSE 0
        lateral_flaw_severity == IF npos >= 4 /\ kp.move = "moving" THEN 80 ELSE 0
        interference_severity == IF in_window /\ npos >= 3 /\ kp.move = "moving" THEN 80 ELSE 0
        combined == IF signal
                    THEN (thumb_rotation_severity * 60 + lateral_flaw_severity * 25
                          + interference_severity * 15) \div 100
                    ELSE (lateral_flaw_severity * 60 + interference_severity * 40) \div 100
        score == IF in_window THEN Max(Min(combined, 100), 10) ELSE Min(combined, 100)
        interference == IF t1.post_release_activity > 0
                        THEN Max(interference_severity, 5) ELSE 5
    IN  [ thumb_flick_flaw_score |-> score,
          guide_hand_interference |-> interference,
          self |-> [s EXCEPT
                      !.thumb_flick_flaw_tracker = << t1 >>,
                      !.immediate_thumb_capture_frame =
                          IF signal /\ ~t0.capture_frame_ready
                          THEN << s.frame_count >> ELSE @] ]

\* analyze_shot_smoothness_tempo: (smoothness_score * 100, tempo_consistency * 100).
\* The frame markers of tempo_markers[current_phase] are modelled by their
\* number: one is appended per call and none is removed (lines 3965-3967).
analyze_shot_smoothness_tempo(s, kp, current_phase) ==
    LET counts == IF HasAttr(s.phase_frame_counts) THEN Attr(s.phase_frame_counts)
                  ELSE [ ph \in Phases |-> 0 ]
        markers == IF HasAttr(s.tempo_markers) THEN Attr(s.tempo_markers)
                   ELSE [ ph \in Phases |-> 0 ]
        mh == Roll(s.motion_history, 15)
    IN  [ smoothness_score |-> IF Attr(mh) >= 4 /\ kp.rhythm = "jerky" THEN 50 ELSE 90,
          tempo_consistency |-> 85,
          self |-> [s EXCEPT
                      !.motion_history = mh,
                      !.phase_frame_counts =
                          << [counts EXCEPT ![current_phase] = @ + 1] >>,
                      !.tempo_markers =
                          << [markers EXCEPT ![current_phase] = @ + 1] >>] ]

\* analyze_guide_hand_mechanics: (interference_score * 100, placement_score * 100).
\* It calls the classifier once more (line 4096).
analyze_guide_hand_mechanics(s, kp) ==
    LET gh == Roll(s.guide_hand_history, 5)
        nvel == IF HasAttr(s.guide_hand_velocity_history)
                THEN Attr(s.guide_hand_velocity_history) ELSE 0
        gv == IF Attr(gh) >= 3 THEN Min(nvel + Attr(gh) - 1, 10) ELSE nvel
        base == IF Attr(gh) >= 3 /\ kp.move = "moving" THEN 40 ELSE 0
        early_release == ~(gv >= 3 /\ kp.move = "moving")
        d == detect_shooting_phase(
                 [s EXCEPT !.guide_hand_history = gh,
                           !.guide_hand_velocity_history = << gv >>], kp)
        adjusted == IF d.phase \in {"release", "follow_through"} /\ ~early_release
                    THEN base + 20 ELSE base
    IN  [ interference_score |-> adjusted,
          placement_score |-> kp.ghp,
          self |-> d.self ]


\* ------------------------------------------------------------ flaw catalog
\* The follow-through analyses, which the code runs once in the
\* follow_through branch (overwriting: lines 2017-2129) and once more in the
\* "universal" block (only adding names not yet present: lines 2146-2262).
\* All the flaws they report carry phase 'follow_through'.
\* tf is the result of analyze_thumb_flick on this frame.
follow_through_rules(tf, s, kp, current_phase, flaws, universal) ==
    LET Put(c, fl, f) == IF universal THEN PutNew(c, fl, f) ELSE PutIf(c, fl, f)
        follow_through == calculate_angle_with_dict
        f1 == Put(tf.thumb_flick_flaw_score > 5 \/ tf.guide_hand_interference > 2, flaws,
                  Flaw(thumb_flick_technique, 2,
                       Min(tf.thumb_flick_flaw_score + (tf.guide_hand_interference * 80) \div 100, 100),
                       "follow_through"))
        f2 == Put(kp.bd > 60, f1,
                  Flaw(follow_through_balance, 3, Min((kp.bd * 3) \div 10, 100), "follow_through"))
        current_wrist_angle == calculate_angle_with_dict
        prev == tf.self.previous_follow_through_wrist_angle
        wrist_snap_speed == IF HasAttr(prev) THEN Abs(current_wrist_angle - Attr(prev)) ELSE 0
        f3 == Put(HasAttr(prev) /\ (wrist_snap_speed < 8 \/ wrist_snap_speed > 25), f2,
                  Flaw(wrist_snap_timing, 2,
                       (Min(Abs(wrist_snap_speed - 15), 10) * 100) \div 10, "follow_through"))
        angle_deviation == Abs(follow_through - 55)
        f4 == Put(angle_deviation > 10, f3,
                  Flaw(follow_through_angle, 3, Min((angle_deviation - 10) * 5, 100),
                       "follow_through"))
        landing == Len(s.phase_history) >= 3
        hip_height_change == IF HasAttr(s.release_hip_height)
                             THEN kp.hip - Attr(s.release_hip_height) ELSE 0
        f5 == Put(landing /\ HasAttr(s.release_hip_height) /\ Abs(hip_height_change) > 80, f4,
                  Flaw(landing_balance, 2, Min(Abs(hip_height_change) \div 2, 100),
                       "follow_through"))
    IN  [ flaws |-> f5,
          self |-> [tf.self EXCEPT
                      !.previous_follow_through_wrist_angle = << current_wrist_angle >>,
                      !.release_hip_height =
                          IF landing /\ current_phase = "release" THEN << kp.hip >> ELSE @] ]

FollowThroughAnalyses(s, kp, current_phase, flaws, universal) ==
    follow_through_rules(analyze_thumb_flick(s, kp), s, kp, current_phase, flaws, universal)

PreparationRules(s, kp) ==
    LET f1 == PutIf(kp.bd > 15, << >>,
                    Flaw(preparation_balance, 1, Min(kp.bd \div 2, 100), "preparation"))
        f2 == PutIf(kp.sw < 90 \/ kp.sw > 200, f1,
                    Flaw(preparation_stance, 2,
                         IF kp.sw < 90 THEN 80 ELSE Min(((kp.sw - 200) * 3) \div 10, 70),
                         "preparation"))
        f3 == PutIf(kp.knee < 150 \/ kp.knee > 170, f2,
                    Flaw(preparation_knee_bend, 3, Min(Abs(kp.knee - 160), 20) * 5,
                         "preparation"))
        f4 == PutIf(Abs(kp.tilt) > 12, f3,
                    Flaw(preparation_shoulder_alignment, 4, Min((Abs(kp.tilt) * 5) \div 2, 100),
                         "preparation"))
    IN  [ flaws |-> f4, self |-> s ]

\* gh is the result of analyze_guide_hand_mechanics on this frame.
shooting_rules(gh, s, kp) ==
    LET elbow_angle == kp.ext
        f1 == PutIf(elbow_angle < 85 \/ elbow_angle > 105, << >>,
                    Flaw(shooting_elbow, 1, Min(Abs(elbow_angle - 95), 20) * 5, "shooting"))
        arm_extension == kp.ext
        wrist_shoulder_delta == kp.wsd
        too_late_in_motion == arm_extension >= 150 \/ wrist_shoulder_delta >= 20
        hand_elevated == kp.wsd > 5
        arm_partially_extended == arm_extension > 100
        f2 == PutIf(/\ ~s.release_detected /\ ~too_late_in_motion
                    /\ hand_elevated /\ arm_partially_extended /\ kp.ha > 80, f1,
                    Flaw(shooting_alignment, 2, Min((kp.ha * 2) \div 5, 100), "shooting"))
        f3 == PutIf(kp.knee < 140 \/ kp.knee > 160, f2,
                    Flaw(shooting_power_generation, 3,
                         (Min(Abs(kp.knee - 150), 15) * 20) \div 3, "shooting"))
        f4 == PutIf(kp.pd > 40, f3,
                    Flaw(shooting_plane_deviation, 4, Min((kp.pd * 4) \div 5, 100), "shooting"))
        f5 == PutIf(gh.interference_score > 30 \/ gh.placement_score < 70, f4,
                    Flaw(guide_hand_interference, 2,
                         Min((gh.interference_score * 70 + (100 - gh.placement_score) * 60) \div 100,
                             100),
                         "shooting"))
    IN  [ flaws |-> f5, self |-> gh.self ]

ShootingRules(s, kp) == shooting_rules(analyze_guide_hand_mechanics(s, kp), s, kp)

ReleaseRules(s, kp) ==
    LET release_height_m == kp.wsd * 10 + kp.tilt \div 2
        f1 == PutIf(release_height_m < 50, << >>,
                    Flaw(release_height, 1, Min(((120 - release_height_m) * 2) \div 5, 100),
                         "release"))
        follow_through == calculate_angle_with_dict
        f2 == PutIf(follow_through < 50 \/ follow_through > 75, f1,
                    Flaw(release_follow_through, 2,
                         (Min(Abs(follow_through - 62), 18) * 100) \div 18, "release"))
        extension_angle == kp.ext
        f3 == PutIf(extension_angle < 160, f2,
                    Flaw(release_extension, 3, Min((170 - extension_angle) * 3, 100), "release"))
        ws == analyze_wrist_snap(s, kp)
        angle_off == ws.snap_angle2 < 120 \/ ws.snap_angle2 > 170
        angle_severity == IF angle_off THEN Min((Abs(ws.snap_angle2 - 145) * 5) \div 4, 60) ELSE 0
        speed_severity == IF ws.snap_speed < 25
                          THEN Min(((25 - ws.snap_speed) * 25) \div 10, 40) ELSE 0
        f4 == PutIf(angle_off \/ ws.snap_speed < 25, f3,
                    Flaw(wrist_snap_mechanics, 2, Min(angle_severity + speed_severity, 100),
                         "release"))
    IN  [ flaws |-> f4, self |-> ws.self ]

\* A catalog that applies the preparation rules whatever the phase.
phase_rules_unscoped(s, kp, current_phase) == PreparationRules(s, kp)

\* The branch of the current phase (lines 1791-2129).
phase_rules(s, kp, current_phase) ==
    CASE current_phase = "preparation" -> PreparationRules(s, kp)
      [] current_phase = "shooting" -> ShootingRules(s, kp)
      [] current_phase = "release" -> ReleaseRules(s, kp)
      [] current_phase = "follow_through" ->
             FollowThroughAnalyses(s, kp, current_phase, << >>, FALSE)
      [] OTHER -> [ flaws |-> << >>, self |-> s ]

\* The smoothness and tempo rule (lines 2267-2285); st is the result of
\* analyze_shot_smoothness_tempo on this frame.
smoothness_rule(st, flaws, current_phase) ==
    [ flaws |-> PutIf(st.smoothness_score < 85 \/ st.tempo_consistency < 80, flaws,
                      Flaw(shot_smoothness_tempo, 3,
                           Min(((100 - st.smoothness_score) * 60
                                + (100 - st.tempo_consistency) * 60) \div 100, 100),
                           current_phase)),
      self |-> st.self ]

\* The end of the "universal" block: previous_arm_extension (line 2265).
remember_arm_extension(u, arm_extension) ==
    [ flaws |-> u.flaws,
      self |-> [u.self EXCEPT !.previous_arm_extension = << arm_extension >>] ]

\* The "universal" follow-through block (lines 2131-2265); a is the result
\* of the branch of the current phase.
universal_block(a, kp, current_phase) ==
    LET arm_extension == kp.ext
        run_universal ==
            /\ a.self.shooting_started
            /\ arm_extension >= 140
            /\ \/ current_phase \in {"release", "shooting"}
               \/ /\ HasAttr(a.self.previous_arm_extension)
                  /\ arm_extension < Attr(a.self.previous_arm_extension)
    IN  IF run_universal
        THEN remember_arm_extension(
                 FollowThroughAnalyses(a.self, kp, current_phase, a.flaws, TRUE),
                 arm_extension)
        ELSE a

\* b is the result of the branch of the current phase and the universal block.
smoothness_block(b, kp, current_phase) ==
    smoothness_rule(analyze_shot_smoothness_tempo(b.self, kp, current_phase),
                    b.flaws, current_phase)

\* analyze_phase_specific_flaws(landmarks, current_phase): the flaws in
\* insertion order, and the analyzer after the trackers were updated.
analyze_phase_specific_flaws(s, kp, current_phase) ==
    IF kp.pose # "full"
    THEN \* a keypoint lookup raises inside the try: {'flaws': {}}
         [ flaws |-> << >>, self |-> s ]
    ELSE smoothness_block(universal_block(phase_rules(s, kp, current_phase),
                                          kp, current_phase),
                          kp, current_phase)


\* -------------------------------------------------- timing-window oracle
\* get_optimal_flaw_timing(flaw_name, landmarks, phase, frames_in_phase):
\* the boolean, the reason tag, and the analyzer (the thumb-flick query
\* consumes the tracker's capture_frame_ready flag).

\* A force angle window that reaches up to 135 degrees.
near_optimal_force_angle_up_to_135(elbow_angle) == 85 <= elbow_angle /\ elbow_angle <= 135

\* "Near-optimal force angle" (line 2618)
near_optimal_force_angle(elbow_angle) == 85 <= elbow_angle /\ elbow_angle <= 95

Timing(optimal, reason, s) == [ optimal |-> optimal, reason |-> reason, self |-> s ]

get_optimal_flaw_timing(s, flaw_name, kp, phase, frames_in_phase) ==
    LET elbow_angle == kp.ext
        wrist_shoulder_delta == kp.wsd
        \* abs(wrist_height - shoulder_height), in hundredths
        wrist_velocity_indicator == Abs(kp.wsd)
        \* abs(hip_center_x - shoulder_center_x) * 100, in tenths
        lateral_balance == kp.bd
        knee_hip_alignment == kp.kha
    IN  IF HasWord(flaw_name, "balance") /\ HasWord(flaw_name, "preparation")
        THEN Timing(/\ phase = "preparation"
                    /\ frames_in_phase >= 8 /\ frames_in_phase <= 15
                    /\ kp.she < 25
                    /\ lateral_balance > 18,
                    "balance_static_equilibrium", s)
        ELSE IF HasWord(flaw_name, "stance") /\ HasWord(flaw_name, "preparation")
        THEN Timing(/\ phase = "preparation"
                    /\ frames_in_phase >= 6 /\ frames_in_phase <= 12
                    /\ knee_hip_alignment > 12
                    /\ wrist_velocity_indicator < 15,
                    "stance_established_base", s)
        ELSE IF HasWord(flaw_name, "elbow") /\ HasWord(flaw_name, "shooting")
        THEN Timing(/\ phase = "shooting"
                    /\ near_optimal_force_angle(elbow_angle)
                    /\ wrist_shoulder_delta >= 10 /\ wrist_shoulder_delta <= 25
                    /\ frames_in_phase >= 2 /\ frames_in_phase <= 8,
                    "elbow_peak_force_generation", s)
        ELSE IF HasWord(flaw_name, "alignment") /\ HasWord(flaw_name, "shooting")
        THEN Timing(/\ phase = "shooting"
                    /\ frames_in_phase >= 2 /\ frames_in_phase <= 6
                    /\ 95 <= elbow_angle /\ elbow_angle <= 120
                    /\ wrist_shoulder_delta >= 8
                    /\ wrist_velocity_indicator > 5,
                    "alignment_early_shooting_setup", s)
        ELSE IF HasWord(flaw_name, "arc")
        THEN Timing(/\ phase = "shooting"
                    /\ 115 <= elbow_angle /\ elbow_angle <= 140
                    /\ wrist_shoulder_delta >= 20
                    /\ frames_in_phase >= 6 /\ frames_in_phase <= 12,
                    "arc_trajectory_formation", s)
        ELSE IF HasWord(flaw_name, "release") /\ HasWord(flaw_name, "height")
        THEN Timing(/\ phase = "release"
                    /\ frames_in_phase = 0
                    /\ elbow_angle >= 155
                    /\ wrist_shoulder_delta >= 18,
                    "release_exact_ball_departure", s)
        ELSE IF HasWords(flaw_name, "thumb", "flick")
        THEN IF /\ HasAttr(s.thumb_flick_flaw_tracker)
                /\ Attr(s.thumb_flick_flaw_tracker).capture_frame_ready
             THEN Timing(TRUE, "thumb_inward_rotation_moment",
                         [s EXCEPT !.thumb_flick_flaw_tracker =
                              << [Attr(@) EXCEPT !.capture_frame_ready = FALSE] >>])
             ELSE Timing(/\ phase \in {"release", "follow_through"}
                         /\ 1 <= frames_in_phase /\ frames_in_phase <= 4
                         /\ HasAttr(s.thumb_flick_flaw_tracker)
                         /\ Attr(s.thumb_flick_flaw_tracker).frames_since_release <= 4,
                         "thumb_flick_post_release_window", s)
        ELSE IF \/ HasWord(flaw_name, "follow")
                \/ (HasWord(flaw_name, "release") /\ HasWord(flaw_name, "through"))
        THEN Timing(/\ phase = "release"
                    /\ frames_in_phase >= 3 /\ frames_in_phase <= 7
                    /\ elbow_angle >= 165
                    /\ kp.wsd < 8      \* wrist_height > shoulder_height - 0.08
                    /\ Abs(wrist_shoulder_delta - 25) < 5,
                    "follow_through_wrist_snap", s)
        ELSE IF HasWord(flaw_name, "hand") \/ HasWord(flaw_name, "wrist")
        THEN Timing(/\ phase = "shooting"
                    /\ frames_in_phase >= 5 /\ frames_in_phase <= 11
                    /\ 95 <= elbow_angle /\ elbow_angle <= 120
                    /\ wrist_shoulder_delta >= 15,
                    "hand_active_control_phase", s)
        ELSE Timing(FALSE, "suboptimal_biomechanical_timing", s)


\* ------------------------------------------------------ capture selector
Has(table, key) == key \in DOMAIN table

Record(frame, severity, reason, optimal) ==
    [ frame |-> frame, severity |-> severity, capture_reason |-> reason,
      biomechanical_timing |-> optimal ]

\* A selector for which no frame ever counts as used.
frame_already_used_never(table, current_frame) == FALSE

\* any(data['frame'] == current_frame for data in self.best_flaw_frames.values())
frame_already_used(table, current_frame) ==
    \E k \in DOMAIN table : table[k].frame = current_frame

\* The sub-window of the emergency tier (lines 2398-2425).
emergency_allowed(flaw_name, kp, phase, frames_in_phase) ==
    IF HasWord(flaw_name, "release") /\ HasWord(flaw_name, "height")
    THEN phase = "release" /\ frames_in_phase = 0
    ELSE IF HasWord(flaw_name, "elbow") /\ HasWord(flaw_name, "shooting")
    THEN phase = "shooting" /\ frames_in_phase <= 10 /\ 85 <= kp.ext /\ kp.ext <= 100
    ELSE IF HasWord(flaw_name, "balance") /\ HasWord(flaw_name, "preparation")
    THEN phase = "preparation" /\ frames_in_phase >= 8 /\ frames_in_phase <= 18
    ELSE IF \/ HasWord(flaw_name, "follow")
            \/ (HasWord(flaw_name, "release") /\ HasWord(flaw_name, "through"))
    THEN phase = "release" /\ frames_in_phase >= 3 /\ frames_in_phase <= 8
    ELSE TRUE

\* A comparison that accepts any other severity.
significantly_better_or_worse(severity, previous_severity) == severity # previous_severity

\* severity > previous_best['severity'] * 1.03 (line 2365)
significantly_better(severity, previous_severity) == 100 * severity > 103 * previous_severity

\* The decision of one loop iteration (lines 2336-2446): should_capture and
\* capture_reason for one flaw, given the oracle's answer.
Decision(capture, reason) == [ should_capture |-> capture, capture_reason |-> reason ]

\* Variant of the decision in which the phase-coverage tier does not look
\* at the severity.
capture_decision_covering_any_severity(s, flaw, kp, phase, frames_in_phase, timing) ==
    LET table == s.best_flaw_frames
        flaw_key == FlawKey(phase, flaw.name)
        severity == flaw.severity
        priority == flaw.priority
        current_frame == s.frame_count
        override == /\ HasWords(flaw.name, "thumb", "flick")
                    /\ HasAttr(s.immediate_thumb_capture_frame)
                    /\ Attr(s.immediate_thumb_capture_frame) = current_frame
        initial == IF override THEN Decision(TRUE, "immediate_thumb_flick_detection")
                   ELSE Decision(FALSE, "")
        used == frame_already_used(table, current_frame)
        is_follow_through == HasWord(flaw.name, "follow") \/ HasWord(flaw.name, "through")
        is_release_moment == phase = "release" /\ frames_in_phase = 0
    IN  IF timing.optimal
        THEN IF ~Has(table, flaw_key)
             THEN Decision(TRUE, "optimal_first")
             ELSE IF \/ 100 * severity > 103 * table[flaw_key].severity
                     \/ ~table[flaw_key].biomechanical_timing
             THEN Decision(TRUE, "optimal_improved")
             ELSE initial
        ELSE IF ~Has(table, flaw_key) /\ severity > 45
        THEN IF is_follow_through /\ is_release_moment
             THEN Decision(FALSE, "follow_through_timing_restriction")
             ELSE IF ~used \/ priority = 1
             THEN Decision(TRUE, "first_occurrence_fallback")
             ELSE Decision(FALSE, "temporal_separation_deferred")
        ELSE IF severity > 80 /\ priority <= 2
        THEN IF /\ emergency_allowed(flaw.name, kp, phase, frames_in_phase)
                /\ \/ ~Has(table, flaw_key)
                   \/ 10 * table[flaw_key].severity < 9 * severity
                /\ (~used \/ priority = 1)
             THEN Decision(TRUE, "emergency_high_severity_biomechanically_valid")
             ELSE initial
        ELSE IF \A k \in DOMAIN table : ~KeyStartsWith(k, phase)
        THEN Decision(TRUE, "phase_coverage_requirement")
        ELSE initial

capture_decision(s, flaw, kp, phase, frames_in_phase, timing) ==
    LET table == s.best_flaw_frames
        flaw_key == FlawKey(phase, flaw.name)
        severity == flaw.severity
        priority == flaw.priority
        current_frame == s.frame_count
        override == /\ HasWords(flaw.name, "thumb", "flick")
                    /\ HasAttr(s.immediate_thumb_capture_frame)
                    /\ Attr(s.immediate_thumb_capture_frame) = current_frame
        initial == IF override THEN Decision(TRUE, "immediate_thumb_flick_detection")
                   ELSE Decision(FALSE, "")
        used == frame_already_used(table, current_frame)
        is_follow_through == HasWord(flaw.name, "follow") \/ HasWord(flaw.name, "through")
        is_release_moment == phase = "release" /\ frames_in_phase = 0
    IN  IF timing.optimal
        THEN IF ~Has(table, flaw_key)
             THEN Decision(TRUE, "optimal_first")
             ELSE IF \/ significantly_better(severity, table[flaw_key].severity)
                     \/ ~table[flaw_key].biomechanical_timing
             THEN Decision(TRUE, "optimal_improved")
             ELSE initial
        ELSE IF ~Has(table, flaw_key) /\ severity > 45
        THEN IF is_follow_through /\ is_release_moment
             THEN Decision(FALSE, "follow_through_timing_restriction")
             ELSE IF ~used \/ priority = 1
             THEN Decision(TRUE, "first_occurrence_fallback")
             ELSE Decision(FALSE, "temporal_separation_deferred")
        ELSE IF severity > 80 /\ priority <= 2
        THEN IF /\ emergency_allowed(flaw.name, kp, phase, frames_in_phase)
                /\ \/ ~Has(table, flaw_key)
                   \/ 10 * table[flaw_key].severity < 9 * severity
                /\ (~used \/ priority = 1)
             THEN Decision(TRUE, "emergency_high_severity_biomechanically_valid")
             ELSE initial
        ELSE IF /\ \A k \in DOMAIN table : ~KeyStartsWith(k, phase)
                /\ severity > 35
        THEN Decision(TRUE, "phase_coverage_requirement")
        ELSE initial

\* A selector that stores the candidate whatever the decision.
store_capture_whatever_the_decision(s, dec, flaw, phase, optimal) ==
    [s EXCEPT
       !.best_flaw_frames =
           (FlawKey(phase, flaw.name)
                :> Record(s.frame_count, flaw.severity, dec.capture_reason, optimal)) @@ @,
       !.captured_flaws = @ \cup {FlawKey(phase, flaw.name)}]

\* The end of one loop iteration (lines 2446-2539): the record is stored
\* when should_capture is true.
store_capture(s, dec, flaw, phase, optimal) ==
    IF dec.should_capture
    THEN [s EXCEPT
            !.best_flaw_frames =
                (FlawKey(phase, flaw.name)
                     :> Record(s.frame_count, flaw.severity, dec.capture_reason, optimal)) @@ @,
            !.captured_flaws = @ \cup {FlawKey(phase, flaw.name)}]
    ELSE s

\* The thumb-flick override consumes immediate_thumb_capture_frame
\* (lines 2347-2354).
consume_thumb_override(s, flaw) ==
    IF /\ HasWords(flaw.name, "thumb", "flick")
       /\ HasAttr(s.immediate_thumb_capture_frame)
       /\ Attr(s.immediate_thumb_capture_frame) = s.frame_count
    THEN [s EXCEPT !.immediate_thumb_capture_frame = NoAttr]
    ELSE s

\* The loop iteration once the oracle has answered (lines 2346-2539).
capture_with_timing(timing, flaw, kp, phase, frames_in_phase) ==
    store_capture(consume_thumb_override(timing.self, flaw),
                  capture_decision(timing.self, flaw, kp, phase, frames_in_phase, timing),
                  flaw, phase, timing.optimal)

\* Observation of the oracle's answers.
note_oracle(timing, flaw) ==
    [timing EXCEPT !.self.oracle_true = IF timing.optimal THEN @ \cup {flaw.name} ELSE @]

\* A count of the frames of the phase that includes the current one.
frames_in_phase_counting_this_one(s, phase) ==
    s.frame_count + 1 - (IF Has(s.phase_transition_frames, phase)
                         THEN s.phase_transition_frames[phase] ELSE s.frame_count)

\* frames_in_phase = current_frame - phase_start (lines 2341-2342)
frames_in_phase_of(s, phase) ==
    s.frame_count - (IF Has(s.phase_transition_frames, phase)
                     THEN s.phase_transition_frames[phase] ELSE s.frame_count)

\* A loop iteration without the two validations against release_detected.
capture_one_without_release_gate(s, flaw, kp, phase) ==
    IF flaw.phase # phase
    THEN s
    ELSE capture_with_timing(
             note_oracle(get_optimal_flaw_timing(s, flaw.name, kp, phase,
                                                 frames_in_phase_of(s, phase)),
                         flaw),
             flaw, kp, phase, frames_in_phase_of(s, phase))

\* One iteration of the loop over flaws.items() (lines 2316-2539).
capture_one(s, flaw, kp, phase) ==
    IF flaw.phase # phase
    THEN s
    ELSE IF HasWord(flaw.name, "preparation") /\ s.release_detected
    THEN s
    ELSE IF HasWords(flaw.name, "shooting", "alignment") /\ s.release_detected
    THEN s
    ELSE capture_with_timing(
             note_oracle(get_optimal_flaw_timing(s, flaw.name, kp, phase,
                                                 frames_in_phase_of(s, phase)),
                         flaw),
             flaw, kp, phase, frames_in_phase_of(s, phase))

RECURSIVE capture_loop(_, _, _, _, _)
capture_loop(s, flaws, kp, phase, i) ==
    IF i > Len(flaws) THEN s
    ELSE capture_loop(capture_one(s, flaws[i], kp, phase), flaws, kp, phase, i + 1)

\* capture_phase_specific_stills(landmarks, flaws, annotated_frame, phase)
capture_phase_specific_stills(s, kp, flaws, phase) ==
    IF kp.pose = "none" \/ flaws = << >>
    THEN s
    ELSE
    LET current_frame == s.frame_count
        transition == Len(s.phase_history) = 0
                      \/ s.phase_history[Len(s.phase_history)] # phase
        s1 == [s EXCEPT
                 !.phase_transition_frames =
                     IF transition THEN (phase :> current_frame) @@ @ ELSE @,
                 !.phase_history = Append(@, phase)]
    IN  capture_loop(s1, flaws, kp, phase, 1)

\* capture_flaw_stills(landmarks, flaws, annotated_frame): asks the
\* classifier for the phase, then runs the selector.
capture_flaw_stills(s, kp, flaws) ==
    IF kp.pose = "none" \/ flaws = << >>
    THEN s
    ELSE LET d == detect_shooting_phase(s, kp)
         IN  IF d.self.raised THEN d.self
             ELSE capture_phase_specific_stills(d.self, kp, flaws, d.phase)


\* ---------------------------------------------------------- operations
NoSeverities == [ n \in FlawNames |-> 0 ]

\* max_severity after the flaws of one frame were reported
Observe(ms, flaws) ==
    [ n \in FlawNames |->
        IF \E i \in DOMAIN flaws : flaws[i].name = n /\ flaws[i].severity > ms[n]
        THEN flaws[CHOOSE i \in DOMAIN flaws : flaws[i].name = n].severity
        ELSE ms[n] ]

\* analyze_detailed_flaws after the classifier answered d (lines 3050-3080).
flaws_of_phase(d, kp) ==
    IF d.self.raised
    THEN [ flaws |-> << >>, self |-> d.self ]
    ELSE analyze_phase_specific_flaws(d.self, kp, d.phase)

\* analyze_shot_form -> analyze_detailed_flaws (lines 3040-3080): classify,
\* then run the catalog under the label obtained.
analyze_detailed_flaws(s, kp) == flaws_of_phase(detect_shooting_phase(s, kp), kp)

\* self.shot_sequence.append({'frame': ..., 'phase': detect_shooting_phase(...)})
\* (lines 4323-4328); d is the classifier's answer.
append_shot(d) ==
    [d.self EXCEPT !.shot_sequence = Append(@, [ frame |-> d.self.frame_count,
                                                 phase |-> d.phase ])]

\* process_frame once the flaw analysis a is there (lines 4323-4356).
record_and_capture(a, kp) ==
    IF a.self.raised
    THEN [ flaws |-> << >>, self |-> a.self ]
    ELSE [ flaws |-> a.flaws,
           self |-> capture_flaw_stills(append_shot(detect_shooting_phase(a.self, kp)),
                                        kp, a.flaws) ]

\* A frame loop that enters every frame in shot_sequence, a frame without
\* a pose under the phase "unknown".
process_frame_recording_every_frame(s, kp) ==
    IF kp.pose = "none"
    THEN [ flaws |-> << >>,
           self |-> [s EXCEPT !.frame_count = @ + 1,
                              !.shot_sequence = Append(@, [ frame |-> s.frame_count + 1,
                                                            phase |-> "unknown" ])] ]
    ELSE record_and_capture(
             analyze_detailed_flaws([s EXCEPT !.frame_count = @ + 1], kp), kp)

\* process_frame(image) (lines 4295-4358)
process_frame(s, kp) ==
    IF kp.pose = "none"
    THEN [ flaws |-> << >>, self |-> [s EXCEPT !.frame_count = @ + 1] ]
    ELSE record_and_capture(
             analyze_detailed_flaws([s EXCEPT !.frame_count = @ + 1], kp), kp)

\* The analyzer and the observations after one call; r is what
\* process_frame produced.
Apply(r) ==
    /\ Commit(r.self)
    /\ last_flaws' = r.flaws
    /\ max_severity' = Observe(max_severity, r.flaws)

\* One call of process_frame by the frame loop (lines 4898-4927).
Step(kp) ==
    /\ Apply(process_frame(Self, kp))
    /\ op' = "process_frame"
    /\ processed' = processed + 1
    /\ UNCHANGED << call, sessions >>

ProcessFrame(kp) ==
    /\ processed < MaxFrames
    /\ Step(kp)

\* reset() (lines 4417-4434)
Reset ==
    /\ Commit([Self EXCEPT
                 !.shot_sequence = << >>,
                 !.frame_count = 0,
                 !.phase_history = << >>,
                 !.best_flaw_frames = << >>,
                 !.phase_transition_frames = << >>,
                 !.captured_flaws = {},
                 !.release_detected = FALSE,
                 !.shooting_started = FALSE,
                 !.oracle_true = {}])
    /\ last_flaws' = << >>
    /\ max_severity' = NoSeverities
    /\ op' = "reset"
    /\ UNCHANGED << processed, call, sessions >>

\* reset_analysis_state() (lines 400-414)
ResetAnalysisState ==
    /\ Commit([Self EXCEPT
                 !.frame_count = 0,
                 !.phase_history = << >>,
                 !.best_flaw_frames = << >>,
                 !.phase_transition_frames = << >>,
                 !.captured_flaws = {},
                 !.release_detected = FALSE,
                 !.shooting_started = FALSE,
                 !.oracle_true = {}])
    /\ last_flaws' = << >>
    /\ max_severity' = NoSeverities
    /\ op' = IF op = "reset" THEN "reset+reset_analysis_state" ELSE "reset_analysis_state"
    /\ UNCHANGED << processed, call, sessions >>

\* ------------------------------------------------------- frames fed in
\* The arm positions: (ext, wsd) pairs on both sides of every threshold of
\* the classifier, and the shoulder-hip delta on both sides of 25 where it
\* decides the label.
ArmFrames ==
    { [CleanFrame EXCEPT !.ext = e, !.wsd = w, !.shd = h] :
        e \in {90, 140, 155, 170}, w \in {5, 12, 30}, h \in {20, 30} }

Frames ==
    { g \in ArmFrames : g.shd = 20 \/ (g.ext < 135 /\ g.wsd < 10) }
    \cup { NoPoseFrame, NoArmFrame }

\* A second analyzer right after ShotAnalyzer(); no frame fed to either.
NoSessions == [ first_frames |-> << >>, second |-> FreshSelf, second_frames |-> << >> ]

\* The analyzer after __init__ (lines 366-398), nothing processed yet.
InitAnalyzer ==
    /\ sessions = NoSessions
    /\ frame_count = FreshSelf.frame_count
    /\ shot_sequence = FreshSelf.shot_sequence
    /\ phase_history = FreshSelf.phase_history
    /\ best_flaw_frames = FreshSelf.best_flaw_frames
    /\ phase_transition_frames = FreshSelf.phase_transition_frames
    /\ captured_flaws = FreshSelf.captured_flaws
    /\ release_detected = FreshSelf.release_detected
    /\ shooting_started = FreshSelf.shooting_started
    /\ previous_wrist_height = FreshSelf.previous_wrist_height
    /\ previous_arm_extension = FreshSelf.previous_arm_extension
    /\ previous_follow_through_wrist_angle = FreshSelf.previous_follow_through_wrist_angle
    /\ release_hip_height = FreshSelf.release_hip_height
    /\ previous_wrist_position = FreshSelf.previous_wrist_position
    /\ thumb_flick_flaw_tracker = FreshSelf.thumb_flick_flaw_tracker
    /\ motion_history = FreshSelf.motion_history
    /\ phase_frame_counts = FreshSelf.phase_frame_counts
    /\ tempo_markers = FreshSelf.tempo_markers
    /\ guide_hand_history = FreshSelf.guide_hand_history
    /\ guide_hand_velocity_history = FreshSelf.guide_hand_velocity_history
    /\ immediate_thumb_capture_frame = FreshSelf.immediate_thumb_capture_frame
    /\ emitted = FreshSelf.emitted
    /\ raised = FreshSelf.raised
    /\ oracle_true = FreshSelf.oracle_true
    /\ op = "init"
    /\ last_flaws = << >>
    /\ max_severity = NoSeverities
    /\ processed = 0

\* No helper method is being called on its own.
NoCall == [ fn |-> "none", args |-> << >>, result |-> << >> ]

Init == InitAnalyzer /\ call = NoCall

Next ==
    \/ \E kp \in Frames : ProcessFrame(kp)
    \/ Reset
    \/ ResetAnalysisState

Spec == Init /\ [][Next]_vars


\* ------------------------------------------- the capture selector at work
\* A shot filmed at a low frame rate: the frames that make the flaw rules
\* of the preparation, shooting and release phases fire with severities on
\* both sides of the selector's bars (35, 45, 80), inside and outside the
\* oracle's windows.
MaxCaptureFrames == 6

CaptureFrames ==
    { NoPoseFrame,
      \* resting pose, weight off centre: preparation_balance 30
      [CleanFrame EXCEPT !.ext = 90, !.wsd = 5, !.bd = 60],
      \* arm rising, hand off line: shooting_alignment 40
      [CleanFrame EXCEPT !.ext = 104, !.wsd = 12, !.ha = 100],
      \* arm further, hand far off line: shooting_elbow 100, shooting_alignment 100
      [CleanFrame EXCEPT !.ext = 130, !.wsd = 12, !.ha = 250],
      \* hand high, plane and guide hand off: shooting_plane_deviation 80,
      \* guide_hand_interference 30
      [CleanFrame EXCEPT !.ext = 100, !.wsd = 30, !.pd = 100, !.ghp = 50],
      \* full extension: release
      [CleanFrame EXCEPT !.ext = 170, !.wsd = 30] }

CaptureFrame(kp) ==
    /\ processed < MaxCaptureFrames
    /\ Step(kp)

NextCapture == \E kp \in CaptureFrames : CaptureFrame(kp)

SpecCapture == Init /\ [][NextCapture]_vars

\* ------------------------------------- the selector on a given flaw report
\* capture_flaw_stills(landmarks, flaws, annotated_frame) takes the flaw
\* report as an argument.  Here it is called on frame after frame with
\* reports of two flaws, preparation_balance and shooting_elbow, evaluated
\* in either order, with severities on both sides of the first-occurrence
\* bar (45), the balance flaw with priority 1 or 4, and each flaw attributed
\* to the preparation or to the shooting phase.
MaxSelectorCalls == 2

SelectorReports ==
    { << Flaw(preparation_balance, p, sv, ph1), Flaw(shooting_elbow, 1, 50, ph2) >> :
        p \in {1, 4}, sv \in {40, 50},
        ph1 \in {"preparation", "shooting"}, ph2 \in {"preparation", "shooting"} }

Reversed(flaws) == << flaws[2], flaws[1] >>

SelectorFrames ==
    { [CleanFrame EXCEPT !.ext = 90, !.wsd = 5],
      [CleanFrame EXCEPT !.ext = 110, !.wsd = 12] }

\* The next frame index (line 4298), then capture_flaw_stills (lines
\* 3319-3328) on the report.
SelectorCall(kp, flaws) ==
    /\ processed < MaxSelectorCalls
    /\ Apply([ flaws |-> flaws,
               self |-> capture_flaw_stills([Self EXCEPT !.frame_count = @ + 1],
                                            kp, flaws) ])
    /\ op' = "capture_flaw_stills"
    /\ processed' = processed + 1
    /\ UNCHANGED << call, sessions >>

NextSelector ==
    \E kp \in SelectorFrames, r \in SelectorReports :
        \/ SelectorCall(kp, r)
        \/ SelectorCall(kp, Reversed(r))

SpecSelector == Init /\ [][NextSelector]_vars

\* ------------------------------------------------- a shot of twenty frames
\* The frame loop fed with a fixed opening: eight frames with the arm at
\* 160 degrees and the wrist 5 above the shoulder, then a frame with the arm
\* at 170 degrees and the wrist 30 above the shoulder.  The frames after it
\* show the same high position or the resting pose.
ScenarioLength == 20

ScenarioFrames(i) ==
    IF i <= 8 THEN { [CleanFrame EXCEPT !.ext = 160, !.wsd = 5] }
    ELSE IF i = 9 THEN { [CleanFrame EXCEPT !.ext = 170, !.wsd = 30] }
    ELSE { [CleanFrame EXCEPT !.ext = 170, !.wsd = 30],
           [CleanFrame EXCEPT !.ext = 90, !.wsd = 5] }

ScenarioFrame(kp) ==
    /\ processed < ScenarioLength
    /\ Step(kp)

NextScenario == \E kp \in ScenarioFrames(processed + 1) : ScenarioFrame(kp)

SpecScenario == Init /\ [][NextScenario]_vars

\* ------------------------------------------- reports that arrive too late
\* capture_flaw_stills called with a report of one flaw that the caller
\* attributes to the release or follow_through phase: a preparation flaw, the
\* shooting alignment flaw, or the release height flaw, on a frame with the
\* arm fully extended or at rest.
GateReports ==
    { << Flaw(n, 1, sv, ph) >> :
        n \in {preparation_balance, shooting_alignment, release_height},
        sv \in {50, 100}, ph \in {"release", "follow_through"} }

GateFrames ==
    { [CleanFrame EXCEPT !.ext = 170, !.wsd = 30],
      [CleanFrame EXCEPT !.ext = 90, !.wsd = 5] }

NextGate == \E kp \in GateFrames, r \in GateReports : SelectorCall(kp, r)

SpecGate == Init /\ [][NextGate]_vars

\* ------------------------------------- follow-through reports at release
\* capture_flaw_stills called with a report of one release-phase flaw,
\* release_follow_through or release_height, at a severity between the
\* phase-coverage bar (35) and the first-occurrence bar (45), above the
\* first-occurrence bar, or above the emergency bar (80), on a frame with
\* the arm fully extended or at rest.
FollowReports ==
    { << Flaw(n, p, sv, "release") >> :
        n \in {release_follow_through, release_height},
        p \in {1, 2}, sv \in {40, 50, 100} }

FollowFrames ==
    { [CleanFrame EXCEPT !.ext = 170, !.wsd = 30],
      [CleanFrame EXCEPT !.ext = 90, !.wsd = 5] }

NextFollow == \E kp \in FollowFrames, r \in FollowReports : SelectorCall(kp, r)

SpecFollow == Init /\ [][NextFollow]_vars

\* ------------------------------------- severe reports in the shooting phase
\* capture_flaw_stills called with a report of one shooting-phase flaw,
\* shooting_elbow (which has an emergency sub-window) or shooting_alignment
\* (which has none), at severity 50, 60 or 100 and priority 1 or 2, on a
\* frame of the shooting phase with the elbow at 90, 98 or 110 degrees and
\* the wrist 12 or 20 above the shoulder.
EmergencyReports ==
    { << Flaw(n, p, sv, "shooting") >> :
        n \in {shooting_elbow, shooting_alignment},
        p \in {1, 2}, sv \in {50, 60, 100} }

EmergencyFrames ==
    { [CleanFrame EXCEPT !.ext = e, !.wsd = w] : e \in {90, 98, 110}, w \in {12, 20} }

NextEmergency == \E kp \in EmergencyFrames, r \in EmergencyReports : SelectorCall(kp, r)

SpecEmergency == Init /\ [][NextEmergency]_vars

\* --------------------------------------------------- a long shooting phase
\* The frame loop fed with sixteen frames that the classifier all labels
\* shooting: the arm at 140 or 160 degrees, the wrist 5 or 12 above the
\* shoulder, the guide hand still or moving.
MaxTrackedFrames == 16

TrackedFrames ==
    { [CleanFrame EXCEPT !.ext = e, !.wsd = w, !.move = mv] :
        e \in {140, 160}, w \in {5, 12}, mv \in {"still", "moving"} }

TrackedFrame(kp) ==
    /\ processed < MaxTrackedFrames
    /\ Step(kp)

NextTracked == \E kp \in TrackedFrames : TrackedFrame(kp)

SpecTracked == Init /\ [][NextTracked]_vars

\* ------------------------------------------------- two analyzer instances
\* Two ShotAnalyzer instances, each fed its own frames through
\* process_frame, the calls interleaved in any order.  The first instance
\* is the analyzer of the variables above, the second is sessions.second.
\* Every attribute is created on self (lines 366-398 and the hasattr
\* blocks of the trackers); the class and the module hold no analysis state.
MaxInstanceFrames == 2

InstanceFrames ==
    { [CleanFrame EXCEPT !.ext = 140, !.wsd = 12],
      [CleanFrame EXCEPT !.ext = 170, !.wsd = 30],
      [CleanFrame EXCEPT !.ext = 90, !.wsd = 5, !.bd = 100] }

\* An instance whose sticky flags are attributes of the class, shared with
\* the first instance.
instance_attributes_sharing_flags(s) ==
    [s EXCEPT !.release_detected = release_detected,
              !.shooting_started = shooting_started]

\* The attributes a method of the instance reads through self.
instance_attributes(s) == s

\* process_frame on the first instance
FirstInstanceFrame(kp) ==
    /\ Len(sessions.first_frames) < MaxInstanceFrames
    /\ Apply(process_frame(Self, kp))
    /\ op' = "process_frame"
    /\ processed' = processed + 1
    /\ sessions' = [sessions EXCEPT !.first_frames = Append(@, kp)]
    /\ UNCHANGED call

\* process_frame on the second instance
SecondInstanceFrame(kp) ==
    /\ Len(sessions.second_frames) < MaxInstanceFrames
    /\ sessions' = [sessions EXCEPT
                      !.second = process_frame(instance_attributes(@), kp).self,
                      !.second_frames = Append(@, kp)]
    /\ UNCHANGED << analyzer_vars, call >>

NextInstances ==
    \E kp \in InstanceFrames :
        \/ FirstInstanceFrame(kp)
        \/ SecondInstanceFrame(kp)

SpecInstances == Init /\ [][NextInstances]_vars

\* ------------------------------------ reports inside the oracle's window
\* capture_flaw_stills called on four frames in a row with a report of the
\* shooting_alignment flaw (priority 2) at severity 40, 41, 42, 50 or 100
\* (above the emergency bar).  The
\* elbow is at 104 degrees on every frame and the wrist is 12 or 5 above the
\* shoulder: with 12 the frame is inside the oracle's window for the flaw
\* from the third frame of the shooting phase on, with 5 it is outside.
MaxOptimalCalls == 4

OptimalReports ==
    { << Flaw(shooting_alignment, 2, sv, "shooting") >> : sv \in {40, 41, 42, 50, 100} }

OptimalFrame(wrist_shoulder_delta) ==
    [CleanFrame EXCEPT !.ext = 104, !.wsd = wrist_shoulder_delta]

OptimalFrames == { OptimalFrame(w) : w \in {5, 12} }

\* The next frame index (line 4298), then capture_flaw_stills (lines
\* 3319-3328) on the report.
OptimalCall(kp, flaws) ==
    /\ processed < MaxOptimalCalls
    /\ Apply([ flaws |-> flaws,
               self |-> capture_flaw_stills([Self EXCEPT !.frame_count = @ + 1],
                                            kp, flaws) ])
    /\ op' = "capture_flaw_stills"
    /\ processed' = processed + 1
    /\ UNCHANGED << call, sessions >>

NextOptimal == \E kp \in OptimalFrames, r \in OptimalReports : OptimalCall(kp, r)

SpecOptimal == Init /\ [][NextOptimal]_vars

\* ------------------------------------------------------ a slow beginning
\* The frame loop fed with nine frames, each showing the resting pose with
\* the hips off centre, the arm rising, or no pose at all.
MaxEarlyFrames == 9

EarlyFrames ==
    { NoPoseFrame,
      [CleanFrame EXCEPT !.ext = 90, !.wsd = 5, !.bd = 200],
      [CleanFrame EXCEPT !.ext = 140, !.wsd = 12] }

EarlyFrame(kp) ==
    /\ processed < MaxEarlyFrames
    /\ Step(kp)

NextEarly == \E kp \in EarlyFrames : EarlyFrame(kp)

SpecEarly == Init /\ [][NextEarly]_vars

\* ------------------------------------------------ the elbow on the way up
\* The frame loop fed with frames of the rising arm, the elbow tucked (80
\* degrees), inside the power window (90), above it (98) or flared (130).
MaxElbowFrames == 6

ElbowFrames ==
    { [CleanFrame EXCEPT !.ext = e, !.wsd = 12] : e \in {80, 90, 98, 130} }

ElbowFrame(kp) ==
    /\ processed < MaxElbowFrames
    /\ Step(kp)

NextElbow == \E kp \in ElbowFrames : ElbowFrame(kp)

SpecElbow == Init /\ [][NextElbow]_vars

\* ------------------------------------------------ the final stills
\* get_final_instructional_stills() (lines 2706-2734) turns the capture
\* table into the dict the caller displays.  It splits each key at its
\* first underscore into phase and flaw name (flaw_key.split('_', 1)) and
\* files the entry under the flaw name.  The table is a dict, iterated in
\* the order in which its keys were first inserted; the model keeps no
\* insertion order, so the order is any enumeration of the keys.

\* phase, flaw_name = flaw_key.split('_', 1) (lines 2714-2717)
split_at_first_underscore(flaw_key) ==
    IF Len(flaw_key) > 1
    THEN [ phase |-> Head(flaw_key), flaw_name |-> Tail(flaw_key) ]
    ELSE [ phase |-> "unknown", flaw_name |-> flaw_key ]

\* The orders in which a dict with these keys can be iterated.
IterationOrders(keys) ==
    { o \in [1..Cardinality(keys) -> keys] : \A i, j \in DOMAIN o : o[i] = o[j] => i = j }

\* final_stills after the loop over best_flaw_frames.items() in the given
\* order: for each flaw name the entry of the last key that yields it.
final_stills(table, order) ==
    [ flaw_name \in { split_at_first_underscore(k).flaw_name : k \in DOMAIN table } |->
        LET last == CHOOSE i \in DOMAIN order :
                        /\ split_at_first_underscore(order[i]).flaw_name = flaw_name
                        /\ \A j \in DOMAIN order :
                             split_at_first_underscore(order[j]).flaw_name = flaw_name
                             => j <= i
        IN  [ phase |-> split_at_first_underscore(order[last]).phase,
              frame_number |-> table[order[last]].frame,
              severity |-> table[order[last]].severity ] ]

\* get_final_instructional_stills()
GetFinalInstructionalStills ==
    /\ \E order \in IterationOrders(DOMAIN best_flaw_frames) :
         call' = [ fn |-> "get_final_instructional_stills",
                   args |-> << best_flaw_frames >>,
                   result |-> << final_stills(best_flaw_frames, order) >> ]
    /\ UNCHANGED << analyzer_vars, sessions >>

\* capture_flaw_stills called with a report of one flaw,
\* shot_smoothness_tempo or follow_through_balance, attributed to the
\* shooting, release or follow_through phase, on a frame with the arm
\* rising, fully extended or at rest.
StillsReports ==
    { << Flaw(n, 1, 50, ph) >> :
        n \in {shot_smoothness_tempo, follow_through_balance},
        ph \in {"shooting", "release", "follow_through"} }

StillsFrames ==
    { [CleanFrame EXCEPT !.ext = 110, !.wsd = 12],
      [CleanFrame EXCEPT !.ext = 170, !.wsd = 30],
      [CleanFrame EXCEPT !.ext = 90, !.wsd = 5] }

NextStills ==
    \/ \E kp \in StillsFrames, r \in StillsReports : SelectorCall(kp, r)
    \/ GetFinalInstructionalStills

SpecStills == Init /\ [][NextStills]_vars

\* --------------------------------------------- the catalog at the extremes
\* Frames of the three arm positions (at rest, rising, released) with every
\* other feature clean, at the low end of its range, or at the high end
\* (normalised coordinates between 0 and 1, angles between 0 and 180).
MaxCatalogFrames == 5

LowFeatures(g) ==
    [g EXCEPT !.bd = 0, !.sw = 0, !.knee = 0, !.tilt = -1000, !.ha = 0, !.pd = 0,
              !.she = 0, !.kha = 0, !.hip = 0, !.snap2 = 0, !.wspeed = 0,
              !.ghp = 0, !.move = "still", !.rhythm = "smooth"]

HighFeatures(g) ==
    [g EXCEPT !.bd = 1000, !.sw = 1000, !.knee = 180, !.tilt = 1000, !.ha = 1000,
              !.pd = 1000, !.she = 1000, !.kha = 1000, !.hip = 1000, !.snap2 = 360,
              !.wspeed = 400, !.ghp = 0, !.move = "moving", !.rhythm = "jerky"]

CatalogArms ==
    { [CleanFrame EXCEPT !.ext = 90, !.wsd = 5],
      [CleanFrame EXCEPT !.ext = 140, !.wsd = 12],
      [CleanFrame EXCEPT !.ext = 170, !.wsd = 30] }

CatalogFrames ==
    CatalogArms \cup { LowFeatures(g) : g \in CatalogArms }
                \cup { HighFeatures(g) : g \in CatalogArms }

CatalogFrame(kp) ==
    /\ processed < MaxCatalogFrames
    /\ Step(kp)

NextCatalog == \E kp \in CatalogFrames : CatalogFrame(kp)

SpecCatalog == Init /\ [][NextCatalog]_vars

\* ------------------------------------------------------- calculate_angle
\* calculate_angle(p1, p2, p3) (lines 3492-3507) on points of the unit
\* square.  A landmark has attributes x and y; a dict such as
\* {"x": ..., "y": ...} has none, and reading p.x raises AttributeError,
\* which the bare except turns into 0.0.  A float is a number or nan.
Float(v) == [ nan |-> FALSE, value |-> v ]
NaN == [ nan |-> TRUE, value |-> 0 ]

Landmark(x, y) == [ has_xy |-> TRUE, x |-> x, y |-> y ]
DictPoint(x, y) == [ has_xy |-> FALSE, x |-> x, y |-> y ]

\* np.degrees(np.arccos(cos)) for cos = dot / sqrt(norms2), on the angles
\* that points of the unit square form (multiples of 45 degrees).
degrees_arccos(dot, norms2) ==
    CASE dot * dot = norms2 /\ dot > 0 -> 0
      [] 2 * dot * dot = norms2 /\ dot > 0 -> 45
      [] dot = 0 -> 90
      [] 2 * dot * dot = norms2 /\ dot < 0 -> 135
      [] dot * dot = norms2 /\ dot < 0 -> 180

\* With numpy's default error state the division 0.0 / 0.0 of two numpy
\* floats warns and gives nan; no exception is raised, and clip, arccos
\* and degrees hand the nan on.
calculate_angle(p1, p2, p3) ==
    IF ~(p1.has_xy /\ p2.has_xy /\ p3.has_xy)
    THEN Float(0)
    ELSE LET ba == << p1.x - p2.x, p1.y - p2.y >>
             bc == << p3.x - p2.x, p3.y - p2.y >>
             dot == ba[1] * bc[1] + ba[2] * bc[2]
             norms2 == (ba[1] * ba[1] + ba[2] * ba[2]) * (bc[1] * bc[1] + bc[2] * bc[2])
         IN  IF norms2 = 0 THEN NaN
             ELSE Float(degrees_arccos(dot, norms2))

Coordinates == {0, 1}

AnglePoints ==
    { Landmark(x, y) : x \in Coordinates, y \in Coordinates } \cup { DictPoint(0, 0) }

InitAngle ==
    /\ InitAnalyzer
    /\ call \in { [ fn |-> "calculate_angle", args |-> << p1, p2, p3 >>, result |-> << >> ] :
                    p1 \in AnglePoints, p2 \in AnglePoints, p3 \in AnglePoints }

CalculateAngle ==
    /\ call.fn = "calculate_angle"
    /\ call.result = << >>
    /\ call' = [call EXCEPT !.result = << calculate_angle(call.args[1], call.args[2],
                                                          call.args[3]) >>]
    /\ UNCHANGED << analyzer_vars, sessions >>

SpecAngle == InitAngle /\ [][CalculateAngle]_vars

\* --------------------------------------------------------- overall_score
\* The aggregate score of analyze_detailed_flaws (lines 3054-3071), in
\* units of 1/20000: a flaw's impact (severity / 100) * weight * 0.5 is
\* severity * (weight * 100) of these units, the baseline 0.65 is 13000
\* and the minimum 0.50 is 10000.
priority_weights(priority) ==
    CASE priority = 1 -> 25
      [] priority = 2 -> 20
      [] priority = 3 -> 15
      [] priority = 4 -> 10
      [] priority \in {5, 6} -> 5
      [] OTHER -> 1

RECURSIVE total_impact(_)
total_impact(flaws) ==
    IF flaws = << >> THEN 0
    ELSE flaws[1].severity * priority_weights(flaws[1].priority) + total_impact(Tail(flaws))

\* A score without the baseline: only the 0.50 minimum is kept.
overall_score_without_baseline(flaws) == Max(10000, 20000 - total_impact(flaws))

overall_score(flaws) == Max(10000, Max(13000, 20000 - total_impact(flaws)))

MaxReportedFlaws == 3

\* The flaw in position i of a report, with a priority of the catalog (1,
\* 4) or none ('priority' missing: 10) and a severity inside or outside
\* [0,100].
ScoredNames ==
    << shooting_elbow, shooting_alignment, shooting_power_generation,
       shooting_plane_deviation, guide_hand_interference >>

ScoredFlaws(i) ==
    { Flaw(ScoredNames[i], p, sv, "shooting") :
        p \in {1, 4, 10}, sv \in {-50, 0, 100} }

RECURSIVE ReportsOfLength(_)
ReportsOfLength(n) ==
    IF n = 0 THEN { << >> }
    ELSE { Append(r, f) : r \in ReportsOfLength(n - 1), f \in ScoredFlaws(n) }

ScoredReports == UNION { ReportsOfLength(n) : n \in 0..MaxReportedFlaws }

InitScore ==
    /\ InitAnalyzer
    /\ call \in { [ fn |-> "overall_score", args |-> << r >>, result |-> << >> ] :
                    r \in ScoredReports }

OverallScore ==
    /\ call.fn = "overall_score"
    /\ call.result = << >>
    /\ call' = [call EXCEPT !.result = << overall_score(call.args[1]) >>]
    /\ UNCHANGED << analyzer_vars, sessions >>

SpecScore == InitScore /\ [][OverallScore]_vars

\* ================================================================ claims
Ord(phase) ==
    CASE phase = "preparation" -> 0
      [] phase = "shooting" -> 1
      [] phase = "release" -> 2
      [] phase = "follow_through" -> 3
      [] OTHER -> 4

Last(seq) == seq[Len(seq)]

\* The previous operation was a frame whose label went into shot_sequence,
\* and this step is the next frame of the same sequence, labelled too.
ConsecutiveLabelledFrames ==
    /\ op = "process_frame" /\ emitted # << >>
    /\ op' = "process_frame" /\ emitted' # << >>
    /\ Len(shot_sequence') = Len(shot_sequence) + 1

\* C1: between two resets the label of a frame, mapped to preparation=0 <
\* shooting=1 < release=2 < follow_through=3, is never lower than the label
\* of the frame before it.
C1_PhaseMonotonicity ==
    [][ ConsecutiveLabelledFrames
        => Ord(Last(shot_sequence).phase) <= Ord(Last(shot_sequence').phase) ]_vars

\* C2: a call of the classifier that starts with shooting_started true does
\* not return preparation, and one that starts with release_detected true
\* returns neither preparation nor shooting.
C2_NoReturnToEarlierPhase ==
    \A i \in DOMAIN emitted :
        /\ emitted[i].started_before => emitted[i].label # "preparation"
        /\ emitted[i].released_before => emitted[i].label \notin {"preparation", "shooting"}

\* A resting pose (the one labelled preparation on a fresh analyzer) is
\* classified after the release was detected.
C2_Witness ==
    /\ emitted # << >>
    /\ emitted[1].released_before
    /\ HasAttr(previous_wrist_height) /\ Attr(previous_wrist_height) < 10
    /\ emitted[1].label = "follow_through"

ResetOps == {"reset", "reset_analysis_state", "reset+reset_analysis_state"}

\* C3: unless the step is a reset, a sticky flag that is true stays true.
C3_StickyFlags ==
    [][ op' \notin ResetOps
        => /\ shooting_started => shooting_started'
           /\ release_detected => release_detected' ]_vars

\* A frame was processed on an analyzer whose two flags were already set,
\* and it was labelled follow_through.
C3_Witness ==
    /\ op = "process_frame"
    /\ emitted # << >>
    /\ emitted[1].started_before /\ emitted[1].released_before
    /\ emitted[1].label = "follow_through"
    /\ shooting_started /\ release_detected


\* The priority the catalog gives each flaw (lines 1798-2285).
CatalogPriority(name) ==
    CASE name \in {preparation_balance, shooting_elbow, release_height} -> 1
      [] name \in {preparation_stance, shooting_alignment, guide_hand_interference,
                   release_follow_through, wrist_snap_mechanics, thumb_flick_technique,
                   wrist_snap_timing, landing_balance} -> 2
      [] name \in {preparation_knee_bend, shooting_power_generation, release_extension,
                   follow_through_balance, follow_through_angle,
                   shot_smoothness_tempo} -> 3
      [] OTHER -> 4

\* The flaw names whose record is stored under this key.
NamesOfKey(key) == { n \in FlawNames : \E ph \in Phases : key = FlawKey(ph, n) }

HasRecord(name) == \E k \in DOMAIN best_flaw_frames : name \in NamesOfKey(k)

\* C4: the table is a map from flaw keys to single records, and a record
\* taken at optimal timing is replaced only by a record taken at optimal
\* timing.
C4_OptimalNeverReplacedByNonOptimal ==
    [][ \A k \in DOMAIN best_flaw_frames :
          ( /\ best_flaw_frames[k].biomechanical_timing
            /\ k \in DOMAIN best_flaw_frames'
            /\ best_flaw_frames'[k] # best_flaw_frames[k] )
          => best_flaw_frames'[k].biomechanical_timing ]_vars

\* C5: two different flaw keys hold the same frame index only if one of
\* the two flaws has priority 1.
C5_TemporalDeduplication ==
    \A k1, k2 \in DOMAIN best_flaw_frames :
        (k1 # k2 /\ best_flaw_frames[k1].frame = best_flaw_frames[k2].frame)
        => \E n \in NamesOfKey(k1) \cup NamesOfKey(k2) : CatalogPriority(n) = 1

\* C7: a flaw for which the oracle never answered true and whose severity
\* never exceeded the first-occurrence bar (45) has no record.
C7_NoCaptureBelowFirstOccurrenceBar ==
    \A n \in FlawNames :
        (n \notin oracle_true /\ max_severity[n] <= 45) => ~HasRecord(n)

\* C7 (amended): a flaw for which the oracle never answered true and whose
\* severity never exceeded the phase-coverage bar (35) has no record.
C7_NoCaptureBelowPhaseCoverageBar ==
    \A n \in FlawNames :
        (n \notin oracle_true /\ max_severity[n] <= 35) => ~HasRecord(n)

\* preparation_balance was reported with severity 30 on a frame on which
\* the table had no preparation record, outside the oracle's window.
C7_Witness ==
    /\ max_severity[preparation_balance] = 30
    /\ preparation_balance \notin oracle_true
    /\ Len(phase_history) > 0 /\ phase_history[1] = "preparation"
    /\ ~HasRecord(preparation_balance)

\* The step is a call of the selector on a report of two flaws.
C6_TwoFlawReport ==
    /\ op' = "capture_flaw_stills"
    /\ ~raised'
    /\ Len(last_flaws') = 2
    /\ Len(phase_history') = Len(phase_history) + 1

\* The key under which the selector files flaw f on this frame.
C6_Key(f) == FlawKey(Last(phase_history'), f.name)

C6_ExceedsBarWithoutRecord(f) ==
    /\ f.severity > 45
    /\ ~Has(best_flaw_frames, C6_Key(f))

C6_CapturedOnThisFrame(f) ==
    /\ Has(best_flaw_frames', C6_Key(f))
    /\ best_flaw_frames'[C6_Key(f)].frame = frame_count'

\* C6: of two flaws above the first-occurrence bar (45) on one frame,
\* neither with a record, both are captured on the frame when both have
\* priority 1, and one of priority 4 beside one of priority 1 is not
\* captured on the frame, in whichever order the two are evaluated.
C6_LowPriorityDefersInAnyOrder ==
    [][ ( /\ C6_TwoFlawReport
          /\ \A i \in {1, 2} : C6_ExceedsBarWithoutRecord(last_flaws'[i]) )
        => /\ (\A i \in {1, 2} : last_flaws'[i].priority = 1)
                => \A i \in {1, 2} : C6_CapturedOnThisFrame(last_flaws'[i])
           /\ \A i \in {1, 2} :
                (last_flaws'[i].priority = 4 /\ last_flaws'[3 - i].priority = 1)
                => ~C6_CapturedOnThisFrame(last_flaws'[i]) ]_vars

\* Flaw f reaches the first-occurrence tier on this frame: it belongs to
\* the current phase, no validation blocks it, the oracle answers no, it is
\* above the bar without a record, and it is not a follow-through flaw on
\* the first frame of the release phase.
C6_ReachesFirstOccurrenceTier(f) ==
    /\ f.phase = Last(phase_history')
    /\ ~(HasWord(f.name, "preparation") /\ release_detected')
    /\ ~(HasWords(f.name, "shooting", "alignment") /\ release_detected')
    /\ f.name \notin oracle_true'
    /\ C6_ExceedsBarWithoutRecord(f)
    /\ ~ /\ HasWord(f.name, "follow") \/ HasWord(f.name, "through")
         /\ Last(phase_history') = "release"
         /\ phase_transition_frames'["release"] = frame_count'

\* C6 (amended): of two flaws of the current phase that reach the
\* first-occurrence tier on a frame no record uses yet, both are captured
\* on the frame when both have priority 1; one of priority 4 beside one of
\* priority 1 is not captured on the frame when it is evaluated second, and
\* is captured on it, the priority-1 flaw sharing the frame, when it is
\* evaluated first.
C6_LowPriorityDefersWhenEvaluatedSecond ==
    [][ ( /\ C6_TwoFlawReport
          /\ \A i \in {1, 2} : C6_ReachesFirstOccurrenceTier(last_flaws'[i])
          /\ ~frame_already_used(best_flaw_frames, frame_count') )
        => /\ (\A i \in {1, 2} : last_flaws'[i].priority = 1)
                => \A i \in {1, 2} : C6_CapturedOnThisFrame(last_flaws'[i])
           /\ (last_flaws'[1].priority = 1 /\ last_flaws'[2].priority = 4)
                => /\ C6_CapturedOnThisFrame(last_flaws'[1])
                   /\ ~C6_CapturedOnThisFrame(last_flaws'[2])
           /\ (last_flaws'[1].priority = 4 /\ last_flaws'[2].priority = 1)
                => \A i \in {1, 2} : C6_CapturedOnThisFrame(last_flaws'[i]) ]_vars

\* The selector evaluated a priority-4 flaw and then a priority-1 flaw, both
\* above the bar, and filed both under the first-occurrence tier on the
\* same frame.
C6_Witness ==
    /\ op = "capture_flaw_stills"
    /\ Len(last_flaws) = 2
    /\ last_flaws[1].priority = 4 /\ last_flaws[2].priority = 1
    /\ \A i \in {1, 2} :
         /\ last_flaws[i].severity > 45
         /\ Has(best_flaw_frames, FlawKey(Last(phase_history), last_flaws[i].name))
         /\ best_flaw_frames[FlawKey(Last(phase_history), last_flaws[i].name)]
              = Record(frame_count, last_flaws[i].severity,
                       "first_occurrence_fallback", FALSE)

\* The label process_frame stored for frame i (every frame of the shot has
\* a pose, so entry i of shot_sequence is frame i).
C8_Label(i) == shot_sequence[i].phase

\* C8: in the shot of twenty frames, frames 1-8 are labelled preparation,
\* frame 9 is labelled release, release_detected is true from frame 9
\* onward, and no frame after frame 9 is labelled preparation.
C8_StillFramesArePreparation ==
    /\ \A i \in DOMAIN shot_sequence :
         /\ shot_sequence[i].frame = i
         /\ i <= 8 => C8_Label(i) = "preparation"
         /\ i = 9 => C8_Label(i) = "release"
         /\ i > 9 => C8_Label(i) # "preparation"
    /\ Len(shot_sequence) >= 9 => release_detected

\* C8 (amended): in the shot of twenty frames, frames 1-8 are labelled
\* shooting, frame 9 is labelled release, release_detected is true from
\* frame 9 onward, and no frame after frame 9 is labelled preparation.
C8_StillFramesAreShooting ==
    /\ \A i \in DOMAIN shot_sequence :
         /\ shot_sequence[i].frame = i
         /\ i <= 8 => C8_Label(i) = "shooting"
         /\ i = 9 => C8_Label(i) = "release"
         /\ i > 9 => C8_Label(i) # "preparation"
    /\ Len(shot_sequence) >= 9 => release_detected

\* The twenty frames were processed, and the last one showed the resting
\* pose.
C8_Witness ==
    /\ Len(shot_sequence) = 20
    /\ frame_count = 20
    /\ C8_Label(8) = "shooting"
    /\ C8_Label(9) = "release"
    /\ HasAttr(previous_wrist_height) /\ Attr(previous_wrist_height) = 5
    /\ C8_Label(20) = "follow_through"

\* What a caller sees of one process_frame call: the flaws reported, the
\* labelled frames and the capture table.
C9_Outputs(r) ==
    [ flaws |-> r.flaws,
      shot_sequence |-> r.self.shot_sequence,
      best_flaw_frames |-> r.self.best_flaw_frames,
      raised |-> r.self.raised ]

\* The analyzer's attributes, without the observations of the last call.
C9_State(s) == [s EXCEPT !.emitted = << >>, !.raised = FALSE, !.oracle_true = {}]

\* C9: after reset() followed by reset_analysis_state() the analyzer is in
\* the state of a freshly constructed one, trackers included, and the next
\* frame gives the same label, flaws and records on both.
C9_ResetRestoresFreshAnalyzer ==
    op = "reset+reset_analysis_state"
    => /\ C9_State(Self) = C9_State(FreshSelf)
       /\ \A kp \in Frames :
            C9_Outputs(process_frame(Self, kp)) = C9_Outputs(process_frame(FreshSelf, kp))

\* C10: on a frame whose keypoints lack one the classifier needs,
\* detect_shooting_phase returns "unknown" without raising and process_frame
\* completes: no call made by an operation is left by an exception.
C10_MissingKeypointAbsorbed == ~raised

\* The angle at p2 cannot be computed: a point has no coordinates, or p1 or
\* p3 coincides with the vertex p2.
C11_NotComputable(p1, p2, p3) ==
    \/ ~(p1.has_xy /\ p2.has_xy /\ p3.has_xy)
    \/ (p1.x = p2.x /\ p1.y = p2.y)
    \/ (p3.x = p2.x /\ p3.y = p2.y)

\* C11: calculate_angle returns a number in every case, and returns 0
\* whenever the angle cannot be computed.
C11_AngleFailureReturnsZero ==
    (call.fn = "calculate_angle" /\ call.result # << >>)
    => /\ ~call.result[1].nan
       /\ C11_NotComputable(call.args[1], call.args[2], call.args[3])
            => call.result[1] = Float(0)

\* C12: every flaw that analyze_phase_specific_flaws reports has a severity
\* between 0 and 100.
C12_SeverityBounds ==
    \A i \in DOMAIN last_flaws :
        last_flaws[i].severity >= 0 /\ last_flaws[i].severity <= 100

\* A frame with the shoulders far off the hips was analysed in the
\* preparation phase: balance_deviation * 500 is 500, reported as 100,
\* next to a stance flaw at its ceiling of 70.
C12_Witness ==
    /\ op = "process_frame"
    /\ \E i \in DOMAIN last_flaws :
         last_flaws[i] = Flaw(preparation_balance, 1, 100, "preparation")
    /\ \E i \in DOMAIN last_flaws :
         last_flaws[i] = Flaw(preparation_stance, 2, 70, "preparation")

\* C13: for flaws with severities in [0,100] the overall score is at least
\* the 0.65 baseline (13000) and at most 1.0 (20000).
C13_ScoreWithinFloorAndCeiling ==
    ( /\ call.fn = "overall_score"
      /\ call.result # << >>
      /\ \A i \in DOMAIN call.args[1] :
           call.args[1][i].severity >= 0 /\ call.args[1][i].severity <= 100 )
    => (call.result[1] >= 13000 /\ call.result[1] <= 20000)

\* Three priority-1 flaws of severity 100 were scored: 1 - 0.375 is below
\* the baseline and the score is 0.65.
C13_Witness ==
    /\ call.fn = "overall_score"
    /\ call.result = << 13000 >>
    /\ Len(call.args[1]) = 3
    /\ \A i \in 1..3 : call.args[1][i].severity = 100 /\ call.args[1][i].priority = 1

\* The flaws the selector refuses once the release was detected: names
\* containing 'preparation' or 'shooting_alignment'.
C14_Gated(name) == HasWord(name, "preparation") \/ HasWords(name, "shooting", "alignment")

\* C14: a selector call that runs with release_detected true neither
\* creates nor overwrites the record of a gated flaw.
C14_NoGatedCaptureAfterRelease ==
    [][ (op' = "capture_flaw_stills" /\ release_detected')
        => \A k \in DOMAIN best_flaw_frames' :
             (\E n \in NamesOfKey(k) : C14_Gated(n))
             => (k \in DOMAIN best_flaw_frames /\ best_flaw_frames'[k] = best_flaw_frames[k]) ]_vars

\* After the release the selector was handed preparation_balance at
\* severity 100, attributed to the current phase, and filed nothing for it.
C14_Witness ==
    /\ op = "capture_flaw_stills"
    /\ release_detected
    /\ Len(last_flaws) = 1
    /\ last_flaws[1].name = preparation_balance
    /\ last_flaws[1].severity = 100
    /\ last_flaws[1].phase = Last(phase_history)
    /\ ~HasRecord(preparation_balance)

\* A flaw name the follow-through restriction is about: it contains
\* 'follow' or 'through'.
C15_FollowThroughNamed(name) == HasWord(name, "follow") \/ HasWord(name, "through")

\* The selector call just made ran on frame-zero of the release phase:
\* phase = release and frames_in_phase = 0.
C15_ReleaseFrameZero ==
    /\ op' = "capture_flaw_stills"
    /\ Len(phase_history') = Len(phase_history) + 1
    /\ Last(phase_history') = "release"
    /\ phase_transition_frames'["release"] = frame_count'

C16_HasSubWindow(name) ==
    \/ HasWord(name, "release") /\ HasWord(name, "height")
    \/ HasWord(name, "elbow") /\ HasWord(name, "shooting")
    \/ HasWord(name, "balance") /\ HasWord(name, "preparation")
    \/ HasWord(name, "follow")
    \/ HasWord(name, "release") /\ HasWord(name, "through")

\* C16: every record filed by the emergency tier belongs to a flaw type
\* with a sub-window of its own and was taken on a frame inside the
\* oracle's window for that flaw (the record's biomechanical_timing is the
\* oracle's answer on the captured frame).
C16_EmergencyInsideOracleWindow ==
    \A k \in DOMAIN best_flaw_frames :
        best_flaw_frames[k].capture_reason = "emergency_high_severity_biomechanically_valid"
        => /\ best_flaw_frames[k].biomechanical_timing
           /\ \A n \in NamesOfKey(k) : C16_HasSubWindow(n)

\* The phase has a record: some key of the table starts with its name.
C17_PhaseHasRecord(table, phase) == \E k \in DOMAIN table : KeyStartsWith(k, phase)

\* C17: when the selector runs on a frame on which a flaw of the current
\* phase fires with severity above 35 while the table has no record for
\* any key of that phase, the table has a record for the phase afterwards.
C17_PhaseCoverageGuaranteed ==
    [][ ( /\ op' = "capture_flaw_stills"
          /\ Len(phase_history') = Len(phase_history) + 1
          /\ ~C17_PhaseHasRecord(best_flaw_frames, Last(phase_history'))
          /\ \E i \in DOMAIN last_flaws' :
               /\ last_flaws'[i].phase = Last(phase_history')
               /\ last_flaws'[i].severity > 35 )
        => C17_PhaseHasRecord(best_flaw_frames', Last(phase_history')) ]_vars

\* The index of the first frame of the sequence that process_frame labelled
\* with the phase (the current frame when no frame was).
C18_FirstFrameOf(sequence, phase, current_frame) ==
    IF \E i \in DOMAIN sequence : sequence[i].phase = phase
    THEN sequence[CHOOSE i \in DOMAIN sequence :
                     /\ sequence[i].phase = phase
                     /\ \A j \in 1..(i - 1) : sequence[j].phase # phase].frame
    ELSE current_frame

\* C18: when the selector runs, the frames_in_phase it hands to the oracle
\* (the frame index minus phase_transition_frames of the current phase) is
\* the frame index minus the index of the first frame of the sequence
\* labelled with that phase.
C18_FramesSinceFirstEntry ==
    [][ ( /\ op' = "process_frame"
          /\ Len(phase_history') = Len(phase_history) + 1 )
        => frames_in_phase_of(Self', Last(phase_history'))
             = frame_count' - C18_FirstFrameOf(shot_sequence', Last(phase_history'),
                                               frame_count') ]_vars

\* C19: every tracker history stays within a fixed window however long the
\* sequence: guide-hand positions and angles hold at most 8 entries, the
\* guide-hand mechanics positions at most 5, the motion vectors at most 15,
\* and the frame markers of each phase and the post-release activity list
\* at most 15, the largest window.
C19_TrackerHistoriesBounded ==
    /\ HasAttr(thumb_flick_flaw_tracker)
         => /\ Attr(thumb_flick_flaw_tracker).guide_hand_positions <= 8
            /\ Attr(thumb_flick_flaw_tracker).guide_hand_angles <= 8
            /\ Attr(thumb_flick_flaw_tracker).post_release_activity <= 15
    /\ HasAttr(guide_hand_history) => Attr(guide_hand_history) <= 5
    /\ HasAttr(motion_history) => Attr(motion_history) <= 15
    /\ HasAttr(tempo_markers)
         => \A ph \in Phases : Attr(tempo_markers)[ph] <= 15

\* The capture-ready flag after analyze_thumb_flick ran on frame kp, which
\* the classifier answered with d.
C20_FlagAfter(d, kp) ==
    Attr(analyze_thumb_flick(d.self, kp).self.thumb_flick_flaw_tracker).capture_frame_ready

\* Frame kp, coming next, is labelled release or follow_through and shows
\* the guide hand moving beyond the thresholds against the position the
\* tracker already holds.
C20_PostReleaseMotion(d, kp) ==
    /\ ~d.self.raised
    /\ d.phase \in {"release", "follow_through"}
    /\ kp.move = "moving"
    /\ HasAttr(thumb_flick_flaw_tracker)
    /\ Attr(thumb_flick_flaw_tracker).guide_hand_positions >= 1

\* C20: when the next frame is labelled release or follow_through and the
\* guide-hand tracker sees a rotation or displacement beyond its threshold
\* on it, the tracker's capture-ready flag is true after the tracker ran.
C20_CaptureReadyOnPostReleaseMotion ==
    \A kp \in CatalogFrames :
        C20_PostReleaseMotion(
            detect_shooting_phase([Self EXCEPT !.frame_count = @ + 1], kp), kp)
        => C20_FlagAfter(
               detect_shooting_phase([Self EXCEPT !.frame_count = @ + 1], kp), kp)

\* The label under which the flaws of the last frame were analysed: the
\* classifier's answer to analyze_detailed_flaws, its first call of the frame.
C21_AnalysisLabel == emitted[1].label

\* C21: every flaw reported for a frame carries the phase label the
\* classifier emitted for that frame.
C21_FlawPhaseIsFrameLabel ==
    (op = "process_frame" /\ emitted # << >>)
    => \A i \in DOMAIN last_flaws : last_flaws[i].phase = C21_AnalysisLabel

\* The flaws of the follow-through analyses, which the universal block
\* runs "regardless of phase".
C21_FollowThroughAnalysisNames ==
    { thumb_flick_technique, follow_through_balance, wrist_snap_timing,
      follow_through_angle, landing_balance }

\* C21 (amended): every flaw reported for a frame carries the phase label
\* the classifier emitted for that frame, except the flaws of the
\* follow-through analyses, which carry phase follow_through on any frame.
C21_FlawPhaseIsFrameLabelOrFollowThrough ==
    (op = "process_frame" /\ emitted # << >>)
    => \A i \in DOMAIN last_flaws :
         \/ last_flaws[i].phase = C21_AnalysisLabel
         \/ /\ last_flaws[i].phase = "follow_through"
            /\ last_flaws[i].name \in C21_FollowThroughAnalysisNames

\* A frame labelled shooting was reported with a shooting flaw and, from
\* the universal block, a follow-through flaw.
C21_Witness ==
    /\ op = "process_frame"
    /\ emitted # << >>
    /\ C21_AnalysisLabel = "shooting"
    /\ \E i \in DOMAIN last_flaws :
         last_flaws[i].name = shooting_elbow /\ last_flaws[i].phase = "shooting"
    /\ \E i \in DOMAIN last_flaws :
         last_flaws[i].name = follow_through_angle /\ last_flaws[i].phase = "follow_through"

\* An instance that processed the first n of the frames alone, starting
\* from a freshly constructed analyzer.
RECURSIVE C22_ProcessedAlone(_, _)
C22_ProcessedAlone(frames, n) ==
    IF n = 0 THEN FreshSelf
    ELSE process_frame(C22_ProcessedAlone(frames, n - 1), frames[n]).self

\* The analysis state of an instance: phase history, sticky flags, tracker
\* histories, capture table and the other attributes, without the
\* observations of the last call.
C22_State(s) == [s EXCEPT !.emitted = << >>, !.raised = FALSE]

C23_Frame == OptimalFrame(Attr(previous_wrist_height))

\* The oracle's answer for the reported flaw on the frame the selector was
\* last called on.
C23_OracleSaysYes ==
    get_optimal_flaw_timing(Self, last_flaws[1].name, C23_Frame, Last(phase_history),
                            frames_in_phase_of(Self, Last(phase_history))).optimal

\* The key of the reported flaw.
C23_Key == FlawKey(Last(phase_history), last_flaws[1].name)

\* The record of the reported flaw was written on the last frame, at
\* optimal timing.
C23_WrittenToThisFrame ==
    /\ Has(best_flaw_frames, C23_Key)
    /\ best_flaw_frames[C23_Key].frame = frame_count
    /\ best_flaw_frames[C23_Key].severity = last_flaws[1].severity
    /\ best_flaw_frames[C23_Key].biomechanical_timing

\* C23: when the oracle answers yes for a flaw of the current phase, its
\* record is written to this frame exactly when there was no record, or
\* the record was not taken at optimal timing, or the candidate's severity
\* exceeds 1.03 times the record's; otherwise the table is left as it was.
C23_OptimalTierRule ==
    [][ ( /\ op' = "capture_flaw_stills"
          /\ Len(phase_history') = Len(phase_history) + 1
          /\ last_flaws'[1].phase = Last(phase_history')
          /\ C23_OracleSaysYes' )
        => IF \/ ~Has(best_flaw_frames, C23_Key')
              \/ ~best_flaw_frames[C23_Key'].biomechanical_timing
              \/ 100 * last_flaws'[1].severity > 103 * best_flaw_frames[C23_Key'].severity
           THEN C23_WrittenToThisFrame'
           ELSE best_flaw_frames' = best_flaw_frames ]_vars

\* An optimal record of severity 40, taken on the third frame, was offered
\* severity 41 inside the window on the fourth frame and kept.
C23_Witness ==
    /\ op = "capture_flaw_stills"
    /\ frame_count = 4
    /\ last_flaws[1].severity = 41
    /\ C23_OracleSaysYes
    /\ Has(best_flaw_frames, C23_Key)
    /\ best_flaw_frames[C23_Key].frame = 3
    /\ best_flaw_frames[C23_Key].severity = 40
    /\ best_flaw_frames[C23_Key].biomechanical_timing

\* C24: no frame with an index above 8 is labelled preparation, by any of
\* the classifier's calls, and once a frame with an index above 8 was
\* labelled shooting_started is true.
C24_NoPreparationAfterBudget ==
    /\ \A i \in DOMAIN shot_sequence :
         shot_sequence[i].frame > 8 => shot_sequence[i].phase # "preparation"
    /\ \A i \in DOMAIN emitted :
         emitted[i].frame > 8 => emitted[i].label # "preparation"
    /\ (\E i \in DOMAIN shot_sequence : shot_sequence[i].frame > 8) => shooting_started

\* Eight frames of the resting pose were labelled preparation, and the
\* ninth, showing the same pose, was labelled shooting.
C24_Witness ==
    /\ Len(shot_sequence) = 9
    /\ \A i \in 1..8 : shot_sequence[i].phase = "preparation"
    /\ shot_sequence[9] = [ frame |-> 9, phase |-> "shooting" ]
    /\ HasAttr(previous_wrist_height) /\ Attr(previous_wrist_height) = 5
    /\ shooting_started

\* C25: get_final_instructional_stills returns one entry per record of the
\* capture table, and the entry of key (phase, flaw_name) is filed under
\* flaw_name and reports that phase with the record's frame index and
\* severity.
C25_OneEntryPerRecord ==
    (call.fn = "get_final_instructional_stills" /\ call.result # << >>)
    => /\ Cardinality(DOMAIN call.result[1]) = Cardinality(DOMAIN call.args[1])
       /\ \A k \in DOMAIN call.args[1] :
            \E ph \in Phases, n \in FlawNames :
               /\ k = FlawKey(ph, n)
               /\ n \in DOMAIN call.result[1]
               /\ call.result[1][n] = [ phase |-> ph,
                                        frame_number |-> call.args[1][k].frame,
                                        severity |-> call.args[1][k].severity ]

\* C26: the classifier invocations of one process_frame call (for the flaw
\* analysis, for the shot_sequence entry and for the capture) all return
\* the same phase label.
C26_OneLabelPerFrame ==
    (op = "process_frame" /\ emitted # << >>)
    => \A i, j \in DOMAIN emitted : emitted[i].label = emitted[j].label

\* C27: fed through process_frame from a reset analyzer, preparation_balance
\* is never captured at optimal timing nor by the emergency tier.
C27_BalanceNeverOptimalNorEmergency ==
    \A ph \in Phases :
        Has(best_flaw_frames, FlawKey(ph, preparation_balance))
        => /\ ~best_flaw_frames[FlawKey(ph, preparation_balance)].biomechanical_timing
           /\ best_flaw_frames[FlawKey(ph, preparation_balance)].capture_reason
                  # "emergency_high_severity_biomechanically_valid"

\* Eight frames were labelled preparation, the flaw fired on each of them
\* and has a record.
C27_Witness ==
    /\ op = "process_frame" /\ frame_count = 8
    /\ Len(phase_history) = 8
    /\ \A i \in DOMAIN phase_history : phase_history[i] = "preparation"
    /\ \E i \in DOMAIN last_flaws : last_flaws[i].name = preparation_balance
    /\ Has(best_flaw_frames, FlawKey("preparation", preparation_balance))
    /\ Has(phase_transition_frames, "preparation")
    /\ frame_count - phase_transition_frames["preparation"] = 7

\* C28: a record of shooting_elbow is never at optimal timing and is never
\* overwritten once created.
C28_Key == FlawKey("shooting", shooting_elbow)

C28_ElbowRecordStays ==
    [][ /\ Has(best_flaw_frames', C28_Key) => ~best_flaw_frames'[C28_Key].biomechanical_timing
        /\ Has(best_flaw_frames, C28_Key)
           => /\ Has(best_flaw_frames', C28_Key)
              /\ best_flaw_frames'[C28_Key] = best_flaw_frames[C28_Key] ]_vars

\* The record was created with severity 75 on an earlier frame, and a
\* shooting frame reported with shooting_elbow at severity 100, at least
\* two frames into the phase, has left it where it was.
C28_Witness ==
    /\ op = "process_frame"
    /\ Has(best_flaw_frames, C28_Key)
    /\ best_flaw_frames[C28_Key].frame + 2 <= frame_count
    /\ best_flaw_frames[C28_Key].severity = 75
    /\ \E i \in DOMAIN last_flaws :
          last_flaws[i].name = shooting_elbow /\ last_flaws[i].severity = 100
    /\ phase_history # << >>
    /\ phase_history[Len(phase_history)] = "shooting"

\* C29: whenever a record captured at optimal timing is overwritten, by
\* any tier, the new record's severity is strictly greater than the
\* severity of the record it replaces.
C29_OptimalRecordOnlyGivesWayToMore ==
    [][ \A k \in DOMAIN best_flaw_frames :
           ( /\ best_flaw_frames[k].biomechanical_timing
             /\ Has(best_flaw_frames', k)
             /\ best_flaw_frames'[k] # best_flaw_frames[k] )
           => best_flaw_frames'[k].severity > best_flaw_frames[k].severity ]_vars

\* The shooting phase began on the first frame, so that the oracle's window
\* was open on the third; on the fourth frame the record was rewritten,
\* at optimal timing with a severity short of the largest, or by the
\* emergency tier.
C29_Witness ==
    /\ op = "capture_flaw_stills"
    /\ frame_count = 4
    /\ Has(phase_transition_frames, "shooting")
    /\ phase_transition_frames["shooting"] = 1
    /\ Has(best_flaw_frames, FlawKey("shooting", shooting_alignment))
    /\ best_flaw_frames[FlawKey("shooting", shooting_alignment)].frame = 4
    /\ \/ /\ best_flaw_frames[FlawKey("shooting", shooting_alignment)].biomechanical_timing
          /\ best_flaw_frames[FlawKey("shooting", shooting_alignment)].severity = 42
       \/ best_flaw_frames[FlawKey("shooting", shooting_alignment)].capture_reason
              = "emergency_high_severity_biomechanically_valid"

\* A call of process_frame in which the classifier was not invoked: the
\* frame showed no pose.
C30_NoPoseStep == op' = "process_frame" /\ emitted' = << >> /\ ~raised'

\* C30: process_frame on a frame without a pose increments the frame
\* counter and changes nothing else: sticky flags, phase history,
\* phase-transition frames, tracker histories, shot_sequence and the
\* capture table are as before, and no flaw is reported for the frame.
C30_NoPoseOnlyCounts ==
    [][ C30_NoPoseStep
        => /\ frame_count' = frame_count + 1
           /\ [Self' EXCEPT !.frame_count = 0] = [Self EXCEPT !.frame_count = 0]
           /\ last_flaws' = << >>
           /\ max_severity' = max_severity ]_vars

\* The third frame showed no pose, after two frames that had started the
\* shot, filled the trackers and left a record in the capture table.
C30_Witness ==
    /\ op = "process_frame" /\ emitted = << >> /\ ~raised
    /\ frame_count = 3
    /\ Len(shot_sequence) = 2
    /\ shooting_started
    /\ Len(phase_history) = 2
    /\ best_flaw_frames # << >>
    /\ HasAttr(previous_wrist_height)
    /\ motion_history # << >>

====
